---- MODULE Spec2Model ----
(***************************************************************************)
(* Markdown-to-slide pipeline of iltci_pptx: the slide segmenter, the      *)
(* per-slide parser, the layout registry, the content formatter and the    *)
(* generator that drives them.                                             *)
(*                                                                         *)
(* Text is modelled as Python sees it: a string is a sequence of           *)
(* one-character strings, so that strip(), split(), join(), startswith()   *)
(* and `in` are computed character by character.  Python indices are       *)
(* 0-based, the sequences here 1-based: a loop index i of the code is      *)
(* i + 1 here.                                                              *)
(***************************************************************************)
EXTENDS Integers, Sequences, FiniteSets, TLC

VARIABLES
    (* parse_slides / _split_into_slides *)
    markdown_content,     \* the argument: text after document frontmatter
    registry,             \* the argument: layout name -> layout index
    strict,               \* the argument: raise or skip on an invalid layout
    pc,                   \* position of the run
    lines,                \* _split_into_slides: markdown_content.split('\n')
    i,                    \* _split_into_slides: index of the next line
    slides,               \* _split_into_slides: completed segments
    current_slide_lines,  \* _split_into_slides: buffer of the open segment
    in_frontmatter,       \* _split_into_slides: inside a frontmatter block
    boundaries,           \* history: separators taken as slide boundaries
    stray,                \* history: separators discarded as stray
    idx,                  \* parse_slides: index of the next segment
    slide_data,           \* parse_slides: the SlideData list being built
    raised,               \* parse_slides: the exception raised, if any
    warnings,             \* parse_slides: segments logged with a warning
    (* PresentationGenerator.generate; it shares registry, pc, idx, raised *)
    (* and warnings with the parser runs                                    *)
    files,                \* the file system: path -> file
    template_override,    \* the argument of generate
    template_path,        \* generate: the template in use
    doc_frontmatter,      \* generate: the document frontmatter
    slide_data_list,      \* generate: the SlideData to build
    prs,                  \* generate: slides of the open presentation
    output,               \* the file at config.output_path
    saves,                \* history: calls of prs.save
    legacy,               \* history: the legacy fallback was taken
    errors,               \* history: slides logged with an error
    (* _populate_content_text_frame *)
    frame_content,        \* the argument `content`: text of a content block
    text_frame,           \* the paragraphs of the text frame
    (* calls of the helper functions *)
    call,                 \* the function called and its arguments
    result                \* what the call returned or raised

splitVars == <<lines, i, slides, current_slide_lines, in_frontmatter, boundaries, stray>>
parseVars == <<idx, slide_data, raised, warnings>>
argVars   == <<markdown_content, registry, strict>>
genVars   == <<files, template_override, template_path, doc_frontmatter, slide_data_list,
               prs, output, saves, legacy, errors>>
textVars  == <<frame_content, text_frame>>
callVars  == <<call, result>>
\* what a run of parse_slides leaves alone
notParse  == <<genVars, textVars, callVars>>
vars      == <<argVars, pc, splitVars, parseVars, genVars, textVars, callVars>>

----------------------------------------------------------------------------
(* Strings *)

NL == "\n"

\* the characters str.strip() removes (those that occur in the model)
IsSpace(c) == c \in {" ", NL, "\t"}

\* str.strip()
Strip(s) ==
    IF \A k \in 1..Len(s) : IsSpace(s[k]) THEN <<>>
    ELSE LET first == CHOOSE k \in 1..Len(s) :
                         ~IsSpace(s[k]) /\ \A j \in 1..(k-1) : IsSpace(s[j])
             last  == CHOOSE k \in 1..Len(s) :
                         ~IsSpace(s[k]) /\ \A j \in (k+1)..Len(s) : IsSpace(s[j])
         IN  SubSeq(s, first, last)

\* str.startswith(p)
StartsWith(s, p) == Len(s) >= Len(p) /\ SubSeq(s, 1, Len(p)) = p

\* c in s, for a one-character c
HasChar(s, c) == \E k \in 1..Len(s) : s[k] = c

\* str.split('\n'): always at least one element
RECURSIVE SplitNL(_)
SplitNL(s) ==
    IF ~HasChar(s, NL) THEN <<s>>
    ELSE LET k == CHOOSE k \in 1..Len(s) :
                     s[k] = NL /\ \A j \in 1..(k-1) : s[j] # NL
         IN  <<SubSeq(s, 1, k-1)>> \o SplitNL(SubSeq(s, k+1, Len(s)))

\* sep.join(parts)
RECURSIVE JoinWith(_, _)
JoinWith(sep, parts) ==
    IF parts = <<>> THEN <<>>
    ELSE IF Len(parts) = 1 THEN parts[1]
    ELSE parts[1] \o sep \o JoinWith(sep, Tail(parts))

\* '\n'.join(parts)
JoinNL(parts) == JoinWith(<<NL>>, parts)

----------------------------------------------------------------------------
(* Input lines *)

SEPARATOR == <<"-", "-", "-">>
BLANK     == <<>>
LAYOUT_A  == <<"l","a","y","o","u","t",":"," ","\"","A","\"">>   \* layout: "A"
LAYOUT_B  == <<"l","a","y","o","u","t",":"," ","B">>             \* layout: B
HEADING   == <<"#"," ","T",":","s">>                             \* # T:s
TEXT      == <<"x"," ">>                                         \* x, trailing blank
NOTE      == <<"a",":","b">>                                     \* a:b

\* the lines a document of the split/parse runs is made of
DocLines == {SEPARATOR, BLANK, LAYOUT_A, LAYOUT_B, HEADING, TEXT, NOTE}

MaxDocLines == 4

\* slides as an author writes them: frontmatter and a body, or a bare body
DeckSlides == {<<SEPARATOR, LAYOUT_A, SEPARATOR, TEXT>>,
               <<SEPARATOR, LAYOUT_A, SEPARATOR, HEADING>>,
               <<SEPARATOR, LAYOUT_B, SEPARATOR, TEXT>>,
               <<SEPARATOR, HEADING, NOTE>>}

MaxDeckSlides == 2

RECURSIVE Flatten(_)
Flatten(seqs) == IF seqs = <<>> THEN <<>> ELSE seqs[1] \o Flatten(Tail(seqs))

\* the sequences over S of length at most n
SeqsUpTo(S, n) == UNION {[1..m -> S] : m \in 0..n}

\* every document of at most MaxDocLines lines, and every deck of at most
\* MaxDeckSlides slides
Documents ==
    {JoinNL(ls) : ls \in SeqsUpTo(DocLines, MaxDocLines)}
    \cup {JoinNL(Flatten(d)) : d \in SeqsUpTo(DeckSlides, MaxDeckSlides)}

----------------------------------------------------------------------------
(* _split_into_slides *)

\* mutant of LooksLikeYamlStart: looks at the very next line only, without
\* skipping the blank lines
LooksLikeYamlStart_NoSkip(ls, line_idx) ==
    /\ line_idx + 1 <= Len(ls)
    /\ HasChar(Strip(ls[line_idx + 1]), ":")
    /\ ~StartsWith(Strip(ls[line_idx + 1]), <<"#">>)

\* _looks_like_yaml_start(line_idx), on the lines ls
LooksLikeYamlStart(ls, line_idx) ==
    LET rest == {k \in (line_idx + 1)..Len(ls) : Strip(ls[k]) # <<>>}
    IN  IF rest = {} THEN FALSE
        ELSE LET check_idx == CHOOSE k \in rest : \A j \in rest : k <= j
                 next_line == Strip(ls[check_idx])
             IN  HasChar(next_line, ":") /\ ~StartsWith(next_line, <<"#">>)

\* _has_only_blank_lines(line_list)
HasOnlyBlankLines(line_list) ==
    \A k \in 1..Len(line_list) : Strip(line_list[k]) = <<>>

IsSeparatorLine(line) == Strip(line) = SEPARATOR

\* the mutant of SplitBranch: a separator after content is kept as a line
SplitBranch_NoBoundary(ls, at, buffer, infm) ==
    IF ~IsSeparatorLine(ls[at]) THEN "regular"
    ELSE IF infm THEN "close"
    ELSE IF buffer = <<>> \/ HasOnlyBlankLines(buffer)
         THEN IF LooksLikeYamlStart(ls, at) THEN "open" ELSE "stray"
    ELSE "regular"

\* which branch of the loop body the line at index at takes
SplitBranch(ls, at, buffer, infm) ==
    IF ~IsSeparatorLine(ls[at]) THEN "regular"
    ELSE IF infm THEN "close"
    ELSE IF buffer = <<>> \/ HasOnlyBlankLines(buffer)
         THEN IF LooksLikeYamlStart(ls, at) THEN "open" ELSE "stray"
    ELSE "boundary"

\* mutant of FlushSlide: the list is overwritten instead of appended to
FlushSlide_Overwrite(done, buffer) ==
    IF Strip(JoinNL(buffer)) # <<>> THEN <<Strip(JoinNL(buffer))>> ELSE done

\* slides.append(slide_content) if slide_content
FlushSlide(done, buffer) ==
    LET slide_content == Strip(JoinNL(buffer))
    IN  IF slide_content # <<>> THEN Append(done, slide_content) ELSE done

\* the loop body for the line at index at: the new (slides, buffer, flag)
SplitStep(ls, at, done, buffer, infm) ==
    LET line   == ls[at]
        branch == SplitBranch(ls, at, buffer, infm)
    IN  CASE branch = "regular"  -> [slides |-> done, buffer |-> Append(buffer, line), infm |-> infm]
          [] branch = "close"    -> [slides |-> done, buffer |-> Append(buffer, line), infm |-> FALSE]
          [] branch = "open"     -> [slides |-> done, buffer |-> <<line>>, infm |-> TRUE]
          [] branch = "stray"    -> [slides |-> done, buffer |-> buffer, infm |-> infm]
          [] branch = "boundary" ->
                IF LooksLikeYamlStart(ls, at)
                THEN [slides |-> FlushSlide(done, buffer), buffer |-> <<line>>, infm |-> TRUE]
                ELSE [slides |-> FlushSlide(done, buffer), buffer |-> <<>>, infm |-> FALSE]

\* mutant of SplitLast: the buffer left at the end of the text is forgotten
SplitLast_Forgotten(done, buffer) == done

\* "Don't forget the last slide"
SplitLast(done, buffer) ==
    IF buffer # <<>> THEN FlushSlide(done, buffer) ELSE done

RECURSIVE SplitFrom(_, _, _, _, _)
SplitFrom(ls, at, done, buffer, infm) ==
    IF at > Len(ls) THEN SplitLast(done, buffer)
    ELSE LET st == SplitStep(ls, at, done, buffer, infm)
         IN  SplitFrom(ls, at + 1, st.slides, st.buffer, st.infm)

\* _split_into_slides(markdown_content), as one call
SplitIntoSlides(text) == SplitFrom(SplitNL(text), 1, <<>>, <<>>, FALSE)

----------------------------------------------------------------------------
(* yaml.safe_load, for the block-style documents the lines above can form:  *)
(* comment lines, blank lines, `key: value` lines and plain scalars         *)

None == <<"None">>

IsComment(line) == StartsWith(Strip(line), <<"#">>)

\* position of the `:` that ends a simple key, 0 when the line has none
KeyColon(line) ==
    LET ks == {k \in 2..Len(line) : line[k] = ":" /\ (k = Len(line) \/ line[k+1] = " ")}
    IN  IF ks = {} \/ IsSpace(line[1]) THEN 0
        ELSE CHOOSE k \in ks : \A j \in ks : k <= j

\* a scalar value: surrounding double quotes removed, empty is None
YamlScalar(v) ==
    LET t == Strip(v)
    IN  IF t = <<>> THEN None
        ELSE IF Len(t) >= 2 /\ t[1] = "\"" /\ t[Len(t)] = "\"" THEN SubSeq(t, 2, Len(t) - 1)
        ELSE t

\* the key and the value of a `key: value` line
YamlKey(line)   == SubSeq(line, 1, KeyColon(line) - 1)
YamlValue(line) == YamlScalar(SubSeq(line, KeyColon(line) + 1, Len(line)))

\* the value a mapping gives a key: that of the last line with the key
YamlLookup(yaml_lines, keyed, key) ==
    YamlValue(yaml_lines[CHOOSE k \in keyed :
                            /\ YamlKey(yaml_lines[k]) = key
                            /\ \A j \in keyed : YamlKey(yaml_lines[j]) = key => j <= k])

\* kind "none" (empty document), "map", "scalar" or "error" (YAMLError)
YamlLoad(yaml_lines) ==
    LET idxs  == {k \in 1..Len(yaml_lines) :
                     Strip(yaml_lines[k]) # <<>> /\ ~IsComment(yaml_lines[k])}
        keyed == {k \in idxs : KeyColon(yaml_lines[k]) > 0}
        keys  == {YamlKey(yaml_lines[k]) : k \in keyed}
    IN  IF idxs = {} THEN [kind |-> "none", map |-> <<>>]
        ELSE IF keyed = idxs
             THEN [kind |-> "map",
                   map  |-> [key \in keys |-> YamlLookup(yaml_lines, keyed, key)]]
        ELSE IF keyed = {} /\ \A k \in idxs : \A j \in idxs :
                                 \A m \in (j+1)..(k-1) : ~IsComment(yaml_lines[m])
             THEN [kind |-> "scalar", map |-> <<>>]
        ELSE [kind |-> "error", map |-> <<>>]

\* `yaml.safe_load(text) or {}`, a YAMLError caught: the mapping, and whether
\* the value is a mapping at all (a plain scalar is a str, which has no .get)
LoadFrontmatter(yaml_lines) ==
    LET y == YamlLoad(yaml_lines)
    IN  [is_map |-> y.kind # "scalar",
         map    |-> IF y.kind = "map" THEN y.map ELSE <<>>]

\* dict.get(key) on a frontmatter mapping
Get(map, key) == IF key \in DOMAIN map THEN map[key] ELSE None

----------------------------------------------------------------------------
(* parse_slide_frontmatter *)

ParseSlideFrontmatter(slide_content) ==
    LET ls     == SplitNL(Strip(slide_content))
        closers == {k \in 2..Len(ls) : Strip(ls[k]) = SEPARATOR}
        none   == [is_map |-> TRUE, frontmatter |-> <<>>, remaining |-> slide_content]
    IN  IF Strip(ls[1]) # SEPARATOR THEN none
        ELSE IF closers = {} THEN none
        ELSE LET end_idx == CHOOSE k \in closers : \A j \in closers : k <= j
                 fm      == LoadFrontmatter(SubSeq(ls, 2, end_idx - 1))
             IN  [is_map      |-> fm.is_map,
                  frontmatter |-> fm.map,
                  remaining   |-> Strip(JoinNL(SubSeq(ls, end_idx + 1, Len(ls))))]

----------------------------------------------------------------------------
(* _parse_content_blocks *)

SPACER_MARKER == <<"<","!","-","-"," ","s","p","a","c","e","r"," ","-","-",">">>

\* s[n:] of Python
From(s, n) == SubSeq(s, n + 1, Len(s))

\* number of leading characters of s that str.strip() would remove
LeadingSpaces(s) ==
    IF \A k \in 1..Len(s) : IsSpace(s[k]) THEN Len(s)
    ELSE (CHOOSE k \in 1..Len(s) : ~IsSpace(s[k]) /\ \A j \in 1..(k-1) : IsSpace(s[j])) - 1

SECTION_OPEN == <<"<","!","-","-">>
SECTION_KEY  == <<"s","e","c","t","i","o","n",":">>
SECTION_END  == <<"-","-",">">>

\* s with its leading whitespace removed (a greedy \s*)
SkipSpaces(s) == From(s, LeadingSpaces(s))

\* the text after `<!--\s*section:`, or None when the line does not start so
SectionBody(line) ==
    IF ~StartsWith(line, SECTION_OPEN) THEN None
    ELSE IF ~StartsWith(SkipSpaces(From(line, Len(SECTION_OPEN))), SECTION_KEY) THEN None
    ELSE From(SkipSpaces(From(line, Len(SECTION_OPEN))), Len(SECTION_KEY))

\* the rest of the pattern, \s*(.+?)\s*-->, can match c with the first \s*
\* taking `skip` characters and the group ending at `stop`
SectionFits(c, skip, stop) ==
    /\ skip <= LeadingSpaces(c)
    /\ stop > skip
    /\ StartsWith(SkipSpaces(From(c, stop)), SECTION_END)

\* the group of the first match: the greedy \s* as long as possible, then
\* the lazy group as short as possible
SectionGroup(c) ==
    IF \A skip \in 0..Len(c), stop \in 1..Len(c) : ~SectionFits(c, skip, stop) THEN None
    ELSE LET skip == CHOOSE n \in 0..Len(c) :
                        /\ \E m \in 1..Len(c) : SectionFits(c, n, m)
                        /\ \A n2 \in (n+1)..Len(c) : \A m \in 1..Len(c) : ~SectionFits(c, n2, m)
             stop == CHOOSE m \in 1..Len(c) :
                        /\ SectionFits(c, skip, m)
                        /\ \A m2 \in 1..(m-1) : ~SectionFits(c, skip, m2)
         IN  SubSeq(c, skip + 1, stop)

\* re.match(r'<!--\s*section:\s*(.+?)\s*-->', line): group 1, or None
SectionMatch(line) ==
    IF SectionBody(line) = None THEN None ELSE SectionGroup(SectionBody(line))

\* the mutant of FlushBlock: the text of the block is appended even when
\* it is empty
FlushBlock_AppendsEmpty(content_blocks, current_block) ==
    [blocks |-> Append(content_blocks, Strip(JoinNL(current_block))), block |-> <<>>]

\* flush_block(): (content_blocks, current_block) afterwards
FlushBlock(content_blocks, current_block) ==
    IF current_block = <<>> THEN [blocks |-> content_blocks, block |-> <<>>]
    ELSE LET block_text == Strip(JoinNL(current_block))
         IN  [blocks |-> IF block_text # <<>> THEN Append(content_blocks, block_text)
                         ELSE content_blocks,
              block  |-> <<>>]

\* the loop body without the test `title is None`: every heading of level
\* 1 or 2 is taken as the title
ContentStep_EveryHeadingIsTitle(st, line) ==
    LET t == Strip(line)
        flushed == FlushBlock(st.content_blocks, st.current_block)
    IN  IF t = <<>>
        THEN IF st.has_content_started
             THEN [st EXCEPT !.content_blocks = Append(flushed.blocks, SPACER_MARKER),
                             !.current_block = flushed.block]
             ELSE st
        ELSE IF SectionMatch(t) # None THEN [st EXCEPT !.section_name = SectionMatch(t)]
        ELSE IF StartsWith(t, <<"#"," ">>) THEN [st EXCEPT !.title = Strip(From(t, 2))]
        ELSE IF StartsWith(t, <<"#","#"," ">>) THEN [st EXCEPT !.title = Strip(From(t, 3))]
        ELSE [st EXCEPT !.current_block = Append(st.current_block, t),
                        !.has_content_started = TRUE]

\* the loop body of _parse_content_blocks for one line
ContentStep(st, line) ==
    LET t == Strip(line)
        flushed == FlushBlock(st.content_blocks, st.current_block)
        asContent == [st EXCEPT !.content_blocks = flushed.blocks,
                                !.current_block = Append(flushed.block, t),
                                !.has_content_started = TRUE]
    IN  IF t = <<>>
        THEN IF st.has_content_started
             THEN [st EXCEPT !.content_blocks = Append(flushed.blocks, SPACER_MARKER),
                             !.current_block = flushed.block]
             ELSE st
        ELSE IF SectionMatch(t) # None THEN [st EXCEPT !.section_name = SectionMatch(t)]
        ELSE IF StartsWith(t, <<"#"," ">>) /\ ~StartsWith(t, <<"#","#"," ">>)
             THEN IF st.title = None THEN [st EXCEPT !.title = Strip(From(t, 2))]
                  ELSE asContent
        ELSE IF StartsWith(t, <<"#","#"," ">>)
             THEN IF st.title = None THEN [st EXCEPT !.title = Strip(From(t, 3))]
                  ELSE asContent
        ELSE [st EXCEPT !.current_block = Append(st.current_block, t),
                        !.has_content_started = TRUE]

RECURSIVE ContentFold(_, _, _)
ContentFold(st, ls, k) ==
    IF k > Len(ls) THEN st ELSE ContentFold(ContentStep(st, ls[k]), ls, k + 1)

\* the mutant of StripTrailingSpacers: the spacers at the end stay
StripTrailingSpacers_Keep(blocks) == blocks

\* "Strip trailing spacer markers"
RECURSIVE StripTrailingSpacers(_)
StripTrailingSpacers(blocks) ==
    IF blocks # <<>> /\ blocks[Len(blocks)] = SPACER_MARKER
    THEN StripTrailingSpacers(SubSeq(blocks, 1, Len(blocks) - 1))
    ELSE blocks

\* _parse_content_blocks(content): title, content_blocks, section_name
ParseContentBlocks(content) ==
    LET init == [title |-> None, section_name |-> <<>>, content_blocks |-> <<>>,
                 has_content_started |-> FALSE, current_block |-> <<>>]
        st   == ContentFold(init, SplitNL(content), 1)
        fl   == FlushBlock(st.content_blocks, st.current_block)
    IN  [title          |-> st.title,
         content_blocks |-> StripTrailingSpacers(fl.blocks),
         section_name   |-> st.section_name]

----------------------------------------------------------------------------
(* layout_discovery: names of a registry *)

\* the characters of the model in ASCII order
ASCII == <<" ", "!", "\"", "#", "-", ":", "<", ">",
           "A", "B", "C", "S", "T",
           "a", "b", "c", "d", "e", "g", "i", "l", "m", "n", "o", "p", "r", "s", "t",
           "u", "x", "y">>

Code(c) == CHOOSE k \in 1..Len(ASCII) : ASCII[k] = c

\* a < b for Python strings
StrLess(a, b) ==
    \E k \in 1..(Len(a) + 1) :
        /\ k <= Len(b)
        /\ \A j \in 1..(k-1) : a[j] = b[j]
        /\ (k = Len(a) + 1 \/ Code(a[k]) < Code(b[k]))

RECURSIVE SortedSeq(_)
SortedSeq(S) ==
    IF S = {} THEN <<>>
    ELSE LET least == CHOOSE a \in S : \A b \in S \ {a} : StrLess(a, b)
         IN  <<least>> \o SortedSeq(S \ {least})

\* the mutant of GetAvailableLayoutNames: the names in descending order
GetAvailableLayoutNames_Descending(reg) ==
    [k \in 1..Cardinality(DOMAIN reg) |->
        SortedSeq(DOMAIN reg)[Cardinality(DOMAIN reg) + 1 - k]]

\* get_available_layout_names(registry)
GetAvailableLayoutNames(reg) == SortedSeq(DOMAIN reg)

\* validate_layout_name(layout_name, registry, raise_on_missing=False)
ValidateLayoutName(layout_name, reg) == layout_name \in DOMAIN reg

----------------------------------------------------------------------------
(* parse_slides *)

KEY_LAYOUT == <<"l","a","y","o","u","t">>
KEY_TITLE  == <<"t","i","t","l","e">>

NAME_A == <<"A">>

NoError == [type |-> "none"]

\* the mutant of LayoutBranch: no check against the registry
LayoutBranch_NoValidation(fm, reg) ==
    IF ~fm.is_map THEN "not_a_mapping"
    ELSE IF Get(fm.frontmatter, KEY_LAYOUT) = None THEN "missing"
    ELSE "valid"

\* what the loop body does with the frontmatter of a segment that is not
\* empty (None and the empty string are the values `not layout_name` holds
\* for; the YAML of the model reads an empty value as None)
LayoutBranch(fm, reg) ==
    IF ~fm.is_map THEN "not_a_mapping"
    ELSE IF Get(fm.frontmatter, KEY_LAYOUT) = None THEN "missing"
    ELSE IF ~ValidateLayoutName(Get(fm.frontmatter, KEY_LAYOUT), reg) THEN "unknown"
    ELSE "valid"

\* what the loop body does with one segment
SlideBranch(raw, reg) ==
    IF Strip(raw) = <<>> THEN "empty"
    ELSE LayoutBranch(ParseSlideFrontmatter(Strip(raw)), reg)

\* the mutant of SlideDataFrom: the heading of the body comes before the
\* title of the frontmatter
SlideDataFrom_HeadingFirst(fm) ==
    LET pcb == ParseContentBlocks(fm.remaining)
    IN  [layout_name    |-> Get(fm.frontmatter, KEY_LAYOUT),
         title          |-> IF pcb.title \notin {None, <<>>}
                            THEN pcb.title ELSE Get(fm.frontmatter, KEY_TITLE),
         content_blocks |-> pcb.content_blocks,
         images         |-> <<>>,
         section_name   |-> pcb.section_name,
         raw_content    |-> fm.remaining,
         options        |-> [k \in DOMAIN fm.frontmatter \ {KEY_LAYOUT, KEY_TITLE, <<"i","m","a","g","e","s">>}
                                 |-> fm.frontmatter[k]]]

\* the SlideData of a segment, given its frontmatter and remaining text
\* (Python's `a or b`: b when a is None or empty).  No line of the model
\* holds an image reference or an `images` key, so the images list stays
\* empty.
SlideDataFrom(fm) ==
    LET pcb == ParseContentBlocks(fm.remaining)
    IN  [layout_name    |-> Get(fm.frontmatter, KEY_LAYOUT),
         title          |-> IF Get(fm.frontmatter, KEY_TITLE) \notin {None, <<>>}
                            THEN Get(fm.frontmatter, KEY_TITLE) ELSE pcb.title,
         content_blocks |-> pcb.content_blocks,
         images         |-> <<>>,
         section_name   |-> pcb.section_name,
         raw_content    |-> fm.remaining,
         options        |-> [k \in DOMAIN fm.frontmatter \ {KEY_LAYOUT, KEY_TITLE, <<"i","m","a","g","e","s">>}
                                 |-> fm.frontmatter[k]]]

\* the SlideData of one valid segment
MakeSlideData(raw) == SlideDataFrom(ParseSlideFrontmatter(Strip(raw)))

\* the ValueError of strict mode: its message names the slide and the layouts
LayoutError(n, reg) ==
    [type |-> "ValueError", slide |-> n, available |-> GetAvailableLayoutNames(reg)]

----------------------------------------------------------------------------
(* A call parse_slides(markdown_content, registry, strict=...): the         *)
(* segmenter's loop line by line, then the loop over the segments           *)

\* no generator runs
GenIdle ==
    /\ files = <<>>
    /\ template_override = None
    /\ template_path = None
    /\ doc_frontmatter = <<>>
    /\ slide_data_list = <<>>
    /\ prs = <<>>
    /\ output = <<>>
    /\ saves = 0
    /\ legacy = FALSE
    /\ errors = <<>>

Init ==
    /\ GenIdle
    /\ frame_content = <<>>
    /\ text_frame = <<>>
    /\ call = None
    /\ result = None
    /\ markdown_content \in Documents
    /\ registry = [n \in {NAME_A} |-> 0]      \* layout "A" at index 0
    /\ strict \in BOOLEAN
    /\ pc = "split"
    /\ lines = SplitNL(markdown_content)
    /\ i = 1
    /\ slides = <<>>
    /\ current_slide_lines = <<>>
    /\ in_frontmatter = FALSE
    /\ boundaries = 0
    /\ stray = 0
    /\ idx = 1
    /\ slide_data = <<>>
    /\ raised = NoError
    /\ warnings = <<>>

\* one pass of the while loop, for the line at index i
SplitPass ==
    /\ LET st == SplitStep(lines, i, slides, current_slide_lines, in_frontmatter)
       IN  /\ slides' = st.slides
           /\ current_slide_lines' = st.buffer
           /\ in_frontmatter' = st.infm
    /\ i' = i + 1
    /\ UNCHANGED <<notParse, argVars, pc, lines, parseVars>>

\* the branch the next pass takes
AtBranch(branch) ==
    /\ pc = "split"
    /\ i <= Len(lines)
    /\ SplitBranch(lines, i, current_slide_lines, in_frontmatter) = branch

\* a line that is no separator joins the buffer
SplitRegularLine ==
    /\ AtBranch("regular")
    /\ SplitPass
    /\ UNCHANGED <<boundaries, stray>>

\* a separator inside frontmatter closes it
SplitCloseFrontmatter ==
    /\ AtBranch("close")
    /\ SplitPass
    /\ UNCHANGED <<boundaries, stray>>

\* a separator at the start of a slide, YAML following: frontmatter opens
SplitOpenFrontmatter ==
    /\ AtBranch("open")
    /\ SplitPass
    /\ UNCHANGED <<boundaries, stray>>

\* a separator at the start of a slide, no YAML following: discarded
SplitStraySeparator ==
    /\ AtBranch("stray")
    /\ SplitPass
    /\ stray' = stray + 1
    /\ UNCHANGED boundaries

\* a separator after content: the slide is flushed
SplitSlideBoundary ==
    /\ AtBranch("boundary")
    /\ SplitPass
    /\ boundaries' = boundaries + 1
    /\ UNCHANGED stray

\* the loop is over: the last slide is flushed and parse_slides goes on
SplitReturn ==
    /\ pc = "split"
    /\ i > Len(lines)
    /\ slides' = SplitLast(slides, current_slide_lines)
    /\ pc' = "parse"
    /\ UNCHANGED <<notParse, argVars, lines, i, current_slide_lines, in_frontmatter, boundaries,
                   stray, parseVars>>

\* a segment with a valid layout becomes a SlideData
ParseAccept ==
    /\ pc = "parse"
    /\ idx <= Len(slides)
    /\ SlideBranch(slides[idx], registry) = "valid"
    /\ slide_data' = Append(slide_data, MakeSlideData(slides[idx]))
    /\ idx' = idx + 1
    /\ UNCHANGED <<notParse, argVars, pc, splitVars, raised, warnings>>

\* an empty segment, or in lenient mode one without a valid layout: skipped
ParseSkip ==
    /\ pc = "parse"
    /\ idx <= Len(slides)
    /\ LET b == SlideBranch(slides[idx], registry)
       IN  /\ b = "empty" \/ (b \in {"missing", "unknown"} /\ ~strict)
           /\ warnings' = IF b = "empty" THEN warnings ELSE Append(warnings, idx)
    /\ idx' = idx + 1
    /\ UNCHANGED <<notParse, argVars, pc, splitVars, slide_data, raised>>

\* in strict mode a segment without a valid layout raises ValueError
ParseRaise ==
    /\ pc = "parse"
    /\ idx <= Len(slides)
    /\ SlideBranch(slides[idx], registry) \in {"missing", "unknown"}
    /\ strict
    /\ raised' = LayoutError(idx, registry)
    /\ pc' = "raised"
    /\ UNCHANGED <<notParse, argVars, splitVars, idx, slide_data, warnings>>

\* a frontmatter that is a plain scalar is a str: frontmatter.get raises
ParseCrash ==
    /\ pc = "parse"
    /\ idx <= Len(slides)
    /\ SlideBranch(slides[idx], registry) = "not_a_mapping"
    /\ raised' = [type |-> "AttributeError"]
    /\ pc' = "raised"
    /\ UNCHANGED <<notParse, argVars, splitVars, idx, slide_data, warnings>>

ParseReturn ==
    /\ pc = "parse"
    /\ idx > Len(slides)
    /\ pc' = "returned"
    /\ UNCHANGED <<notParse, argVars, splitVars, parseVars>>

Next ==
    \/ SplitRegularLine
    \/ SplitCloseFrontmatter
    \/ SplitOpenFrontmatter
    \/ SplitStraySeparator
    \/ SplitSlideBoundary
    \/ SplitReturn
    \/ ParseAccept
    \/ ParseSkip
    \/ ParseRaise
    \/ ParseCrash
    \/ ParseReturn

Spec == Init /\ [][Next]_vars

----------------------------------------------------------------------------
(* Claims about the segmenter *)

SplitDone == pc # "split"

\* a line that reads as a YAML key: it holds a colon and is no heading
YamlKeyLike(line) == HasChar(Strip(line), ":") /\ Strip(line)[1] # "#"

\* ls is one frontmatter block closed at line c, then body lines: the first
\* and the c-th line are the only separator lines, and the first non-blank
\* line of the block reads as a YAML key
FrontmatterThenBody(ls, c) ==
    /\ c \in 2..Len(ls)
    /\ IsSeparatorLine(ls[1])
    /\ IsSeparatorLine(ls[c])
    /\ \A k \in 2..Len(ls) : k # c => ~IsSeparatorLine(ls[k])
    /\ \E k \in 2..(c-1) :
          /\ Strip(ls[k]) # <<>>
          /\ YamlKeyLike(ls[k])
          /\ \A j \in 2..(k-1) : Strip(ls[j]) = <<>>

\* the document ---, layout: "A", ---, content
ExampleDocument == <<SEPARATOR, LAYOUT_A, SEPARATOR, TEXT>>

\* C1: a document that is one frontmatter block followed by body lines with
\* no separator line is returned by _split_into_slides as exactly one
\* segment, and parse_slide_frontmatter on that segment returns the YAML
\* value of the block with the stripped body as the remaining text; for
\* ---, layout: "A", ---, content that is {layout: "A"} and "content".
C1_OneSlideWithFrontmatter ==
    \A c \in 2..Len(lines) :
        (SplitDone /\ FrontmatterThenBody(lines, c)) =>
            /\ Len(slides) = 1
            /\ ParseSlideFrontmatter(slides[1]).frontmatter
                  = LoadFrontmatter(SubSeq(lines, 2, c - 1)).map
            /\ ParseSlideFrontmatter(slides[1]).is_map
                  = LoadFrontmatter(SubSeq(lines, 2, c - 1)).is_map
            /\ ParseSlideFrontmatter(slides[1]).remaining
                  = Strip(JoinNL(SubSeq(lines, c + 1, Len(lines))))
            /\ lines = ExampleDocument =>
                  /\ ParseSlideFrontmatter(slides[1]).frontmatter = (KEY_LAYOUT :> NAME_A)
                  /\ ParseSlideFrontmatter(slides[1]).remaining = <<"x">>

C1_Witness ==
    /\ SplitDone
    /\ lines = ExampleDocument
    /\ Len(slides) = 1
    /\ in_frontmatter = FALSE

\* the buffer left when the text ends holds a last slide
LastSlideOpen == ~HasOnlyBlankLines(current_slide_lines)

\* C2 as stated: with N separators taken as slide boundaries,
\* _split_into_slides returns exactly N segments.
C2_SegmentsEqualBoundaries ==
    SplitDone => Len(slides) = boundaries

\* C2, amended: with N separators taken as slide boundaries,
\* _split_into_slides returns N segments, and one more when non-blank
\* content is left in the buffer at the end of the text.
C2_SegmentCount ==
    SplitDone => Len(slides) = boundaries + (IF LastSlideOpen THEN 1 ELSE 0)

C2_Witness ==
    /\ SplitDone
    /\ boundaries = 1
    /\ Len(slides) = 2
    /\ LastSlideOpen

\* the text cut at every separator line, each piece stripped
RECURSIVE BlockLines(_, _)
BlockLines(ls, cur) ==
    IF ls = <<>> THEN <<cur>>
    ELSE IF IsSeparatorLine(ls[1]) THEN <<cur>> \o BlockLines(Tail(ls), <<>>)
    ELSE BlockLines(Tail(ls), Append(cur, ls[1]))

Blocks(text) ==
    LET b == BlockLines(SplitNL(text), <<>>)
    IN  [k \in 1..Len(b) |-> Strip(JoinNL(b[k]))]

NonBlank(block) == block # <<>>

\* the segments concatenated in order, a separator line between them
Reassembled == JoinWith(<<NL>> \o SEPARATOR \o <<NL>>, slides)

\* C3 as stated: the segments joined with separator lines reproduce the
\* original modulo whitespace around each piece: the same pieces between
\* the same number of separator lines.
C3_RoundTripExact ==
    SplitDone => Blocks(Reassembled) = Blocks(markdown_content)

\* C3, amended: the segments joined with separator lines hold the same
\* non-blank pieces of text between separator lines, in the same order, as
\* the original; no content line is lost, duplicated or reordered.
\* Separator lines themselves may be lost or added.
C3_RoundTripContent ==
    SplitDone =>
        SelectSeq(Blocks(Reassembled), NonBlank)
            = SelectSeq(Blocks(markdown_content), NonBlank)

C3_Witness ==
    /\ SplitDone
    /\ stray > 0
    /\ boundaries > 0
    /\ Len(slides) = 2
    /\ Blocks(Reassembled) # Blocks(markdown_content)

----------------------------------------------------------------------------
(* Claims about parse_slides *)

\* the frontmatter of a segment, as parse_slides reads it
SegmentFrontmatter(raw) == ParseSlideFrontmatter(Strip(raw))

\* the segment is not empty and its frontmatter is a mapping
SegmentReadable(raw) == Strip(raw) # <<>> /\ SegmentFrontmatter(raw).is_map

\* the segment names a layout of the registry
HasValidLayout(raw) ==
    /\ SegmentReadable(raw)
    /\ Get(SegmentFrontmatter(raw).frontmatter, KEY_LAYOUT) \in DOMAIN registry

\* the segment names no layout, or one that is not in the registry
HasInvalidLayout(raw) ==
    /\ SegmentReadable(raw)
    /\ Get(SegmentFrontmatter(raw).frontmatter, KEY_LAYOUT) \notin DOMAIN registry

\* the layout names of the segments with a valid layout, in input order
RECURSIVE ValidLayouts(_)
ValidLayouts(segs) ==
    IF segs = <<>> THEN <<>>
    ELSE IF HasValidLayout(segs[1])
         THEN <<Get(SegmentFrontmatter(segs[1]).frontmatter, KEY_LAYOUT)>>
                 \o ValidLayouts(Tail(segs))
         ELSE ValidLayouts(Tail(segs))

\* the bodies of the segments with a valid layout, in input order
RECURSIVE ValidBodies(_)
ValidBodies(segs) ==
    IF segs = <<>> THEN <<>>
    ELSE IF HasValidLayout(segs[1])
         THEN <<SegmentFrontmatter(segs[1]).remaining>> \o ValidBodies(Tail(segs))
         ELSE ValidBodies(Tail(segs))

C7_StrictRaises ==
    /\ pc = "raised"
    /\ strict
    /\ raised.type = "ValueError"
    /\ idx = 2

----------------------------------------------------------------------------
(* parse_document_frontmatter, parse_slides as one call, parse_markdown_file *)

\* the mutant of ParseDocumentFrontmatter: the block is read and left in
\* the text
ParseDocumentFrontmatter_KeepsBlock(content) ==
    LET ls      == SplitNL(content)
        closers == {k \in 2..Len(ls) : Strip(ls[k]) = SEPARATOR}
        none    == [is_map |-> TRUE, frontmatter |-> <<>>, remaining |-> content]
    IN  IF Strip(ls[1]) # SEPARATOR THEN none
        ELSE IF closers = {} THEN none
        ELSE LET end_idx == CHOOSE k \in closers : \A j \in closers : k <= j
                 fm      == LoadFrontmatter(SubSeq(ls, 2, end_idx - 1))
             IN  [is_map      |-> fm.is_map,
                  frontmatter |-> fm.map,
                  remaining   |-> content]

ParseDocumentFrontmatter(content) ==
    LET ls      == SplitNL(content)
        closers == {k \in 2..Len(ls) : Strip(ls[k]) = SEPARATOR}
        none    == [is_map |-> TRUE, frontmatter |-> <<>>, remaining |-> content]
    IN  IF Strip(ls[1]) # SEPARATOR THEN none
        ELSE IF closers = {} THEN none
        ELSE LET end_idx == CHOOSE k \in closers : \A j \in closers : k <= j
                 fm      == LoadFrontmatter(SubSeq(ls, 2, end_idx - 1))
             IN  [is_map      |-> fm.is_map,
                  frontmatter |-> fm.map,
                  remaining   |-> JoinNL(SubSeq(ls, end_idx + 1, Len(ls)))]

\* the loop of parse_slides from segment k on: the SlideData of the valid
\* segments, the segments warned about, and the exception that ends it
RECURSIVE ParseSegments(_, _, _, _)

\* the mutant of ParseSegment: a segment without a valid layout is kept
ParseSegment_KeepsInvalid(b, segs, reg, is_strict, k) ==
    IF b = "empty" THEN ParseSegments(segs, reg, is_strict, k + 1)
    ELSE [ParseSegments(segs, reg, is_strict, k + 1)
             EXCEPT !.slides = <<MakeSlideData(segs[k])>> \o @]

\* the loop body for segment k, on the branch b it takes
ParseSegment(b, segs, reg, is_strict, k) ==
    IF b = "not_a_mapping"
    THEN [slides |-> <<>>, warnings |-> <<>>, raised |-> [type |-> "AttributeError"]]
    ELSE IF b \in {"missing", "unknown"} /\ is_strict
    THEN [slides |-> <<>>, warnings |-> <<>>, raised |-> LayoutError(k, reg)]
    ELSE IF b = "valid"
    THEN [ParseSegments(segs, reg, is_strict, k + 1)
             EXCEPT !.slides = <<MakeSlideData(segs[k])>> \o @]
    ELSE IF b = "empty" THEN ParseSegments(segs, reg, is_strict, k + 1)
    ELSE [ParseSegments(segs, reg, is_strict, k + 1) EXCEPT !.warnings = <<k>> \o @]

ParseSegments(segs, reg, is_strict, k) ==
    IF k > Len(segs) THEN [slides |-> <<>>, warnings |-> <<>>, raised |-> NoError]
    ELSE ParseSegment(SlideBranch(segs[k], reg), segs, reg, is_strict, k)

\* parse_slides(markdown_content, registry, strict=is_strict)
ParseSlides(text, reg, is_strict) ==
    ParseSegments(SplitIntoSlides(text), reg, is_strict, 1)

\* parse_markdown_file(md_file, registry, config, strict=is_strict) on an
\* existing file; a document frontmatter that is a plain scalar has no
\* .keys()
ParsedFile(doc, parsed) ==
    IF ~doc.is_map
    THEN [doc_frontmatter |-> <<>>, slides |-> <<>>, warnings |-> <<>>,
          raised |-> [type |-> "AttributeError"]]
    ELSE [doc_frontmatter |-> doc.frontmatter, slides |-> parsed.slides,
          warnings |-> parsed.warnings, raised |-> parsed.raised]

\* the slides of a file, given its document frontmatter and remaining text
ParseRemaining(doc, reg, is_strict) ==
    ParsedFile(doc, ParseSlides(doc.remaining, reg, is_strict))

ParseMarkdownFile(text, reg, is_strict) ==
    ParseRemaining(ParseDocumentFrontmatter(text), reg, is_strict)

\* the loop of parse_slides and the call as a whole agree
ParseSlidesAgree ==
    /\ pc = "returned" =>
          /\ ParseSlides(markdown_content, registry, strict).slides = slide_data
          /\ ParseSlides(markdown_content, registry, strict).warnings = warnings
          /\ ParseSlides(markdown_content, registry, strict).raised = NoError
    /\ pc = "raised" => ParseSlides(markdown_content, registry, strict).raised = raised

----------------------------------------------------------------------------
(* The legacy parser: parse_markdown_slides and _parse_legacy_slide_content *)

\* str.endswith(p)
EndsWith(s, p) == Len(s) >= Len(p) /\ SubSeq(s, Len(s) - Len(p) + 1, Len(s)) = p

\* str.find(sub) + 1: the first position where sub occurs in s, 0 when none
FindSub(s, sub) ==
    LET at == {k \in 1..(Len(s) - Len(sub) + 1) : SubSeq(s, k, k + Len(sub) - 1) = sub}
    IN  IF at = {} THEN 0 ELSE CHOOSE k \in at : \A j \in at : k <= j

\* re.split(sep, s) for a literal sep, which is str.split(sep)
RECURSIVE SplitOn(_, _)
SplitOn(s, sep) ==
    IF FindSub(s, sep) = 0 THEN <<s>>
    ELSE <<SubSeq(s, 1, FindSub(s, sep) - 1)>>
             \o SplitOn(SubSeq(s, FindSub(s, sep) + Len(sep), Len(s)), sep)

\* str.replace(old, new)
Replace(s, old, new) == JoinWith(new, SplitOn(s, old))

TITLE_CLASS == <<"<","!","-","-"," ","_","c","l","a","s","s",":"," ","t","i","t","l","e"," ","-","-",">">>

\* one pass of the loop of _parse_legacy_slide_content
LegacyStep(st, line, is_title) ==
    LET t == Strip(line)
        toSubtitle == [st EXCEPT !.subtitle_lines = Append(@, t), !.has_content_started = TRUE]
        toContent  == [st EXCEPT !.content_lines = Append(@, t), !.has_content_started = TRUE]
        toEither   == IF is_title THEN toSubtitle ELSE toContent
    IN  IF t = <<>>
        THEN IF st.has_content_started /\ ~is_title
             THEN [st EXCEPT !.content_lines = Append(@, SPACER_MARKER)]
             ELSE IF st.has_content_started /\ is_title
             THEN [st EXCEPT !.subtitle_lines = Append(@, SPACER_MARKER)]
             ELSE st
        ELSE IF StartsWith(t, <<"<","!","-","-"," ","s","e","c","t","i","o","n",":">>) /\ EndsWith(t, SECTION_END)
        THEN [st EXCEPT !.section_name = Strip(Replace(Replace(t, <<"<","!","-","-"," ","s","e","c","t","i","o","n",":">>, <<>>),
                                                        SECTION_END, <<>>))]
        ELSE IF StartsWith(t, <<"#"," ">>) /\ ~StartsWith(t, <<"#","#"," ">>)
        THEN [st EXCEPT !.title = Strip(Replace(t, <<"#">>, <<>>))]
        ELSE IF StartsWith(t, <<"#","#"," ">>)
        THEN IF is_title THEN toSubtitle
             ELSE IF st.title = <<>>
             THEN [st EXCEPT !.title = Strip(Replace(t, <<"#","#">>, <<>>))]
             ELSE toContent
        ELSE IF StartsWith(t, <<"#","#","#"," ">>) THEN toEither
        ELSE IF StartsWith(t, <<"#","#","#","#"," ">>) \/ StartsWith(t, <<"#","#","#","#","#"," ">>) THEN toContent
        ELSE toEither

RECURSIVE LegacyFold(_, _, _, _)
LegacyFold(st, ls, k, is_title) ==
    IF k > Len(ls) THEN st
    ELSE LegacyFold(LegacyStep(st, ls[k], is_title), ls, k + 1, is_title)

\* _parse_legacy_slide_content(slide, is_title): the legacy dict
ParseLegacySlideContent(slide, is_title) ==
    LET init == [title |-> <<>>, subtitle_lines |-> <<>>, content_lines |-> <<>>,
                 section_name |-> <<>>, has_content_started |-> FALSE]
        st   == LegacyFold(init, SplitNL(slide), 1, is_title)
    IN  [is_title     |-> is_title,
         section_name |-> st.section_name,
         title        |-> st.title,
         subtitle     |-> JoinNL(StripTrailingSpacers(st.subtitle_lines)),
         content      |-> JoinNL(StripTrailingSpacers(st.content_lines))]

\* the legacy dict of a slide, given its frontmatter and remaining text;
\* is_map: the frontmatter is a mapping (or there is none).  No line of the
\* model holds a `_layout:`, `_image_fit:` or `_bg_image:` comment or such
\* a key, so those stay unset.
LegacySlideFrom(fm, is_title) ==
    LET dict == ParseLegacySlideContent(fm.remaining, is_title)
    IN  [is_map |-> fm.is_map,
         dict   |-> [layout |-> Get(fm.frontmatter, KEY_LAYOUT)] @@ dict]

LegacySlide(piece) ==
    LegacySlideFrom(ParseSlideFrontmatter(Strip(Replace(Strip(piece), TITLE_CLASS, <<>>))),
                    FindSub(Strip(piece), TITLE_CLASS) > 0)

\* the pieces between separator lines that are not blank
LegacyPieces(content) ==
    SelectSeq(SplitOn(content, <<NL>> \o SEPARATOR \o <<NL>>), LAMBDA x : Strip(x) # <<>>)

\* the loop of parse_markdown_slides over the pieces: the legacy dicts,
\* and the exception when a slide's frontmatter is a plain scalar
LegacyLoop(pieces) ==
    LET parsed == [k \in 1..Len(pieces) |-> LegacySlide(pieces[k])]
    IN  [raised |-> IF \E k \in 1..Len(parsed) : ~parsed[k].is_map
                    THEN [type |-> "AttributeError"] ELSE NoError,
         slides |-> [k \in 1..Len(parsed) |-> parsed[k].dict]]

\* parse_markdown_slides(md_file, config) on an existing file
ParseMarkdownSlides(text) ==
    LegacyLoop(LegacyPieces(ParseDocumentFrontmatter(text).remaining))

----------------------------------------------------------------------------
(* layout_discovery: load_layout_registry.  A layout of a template is its   *)
(* name and the number of its placeholders.                                 *)

\* _has_placeholders(layout)
HasPlaceholders(layout) == layout.placeholders > 0

\* the mutant of RegistryBranch: no check for a name that is registered
RegistryBranch_NoDuplicateCheck(reg, layout) ==
    IF ~HasPlaceholders(layout) THEN "no_placeholders" ELSE "register"

\* what the loop body does with a layout: `continue` without placeholders,
\* a warning and `continue` for a name that is registered, else the
\* assignment
RegistryBranch(reg, layout) ==
    IF ~HasPlaceholders(layout) THEN "no_placeholders"
    ELSE IF layout.name \in DOMAIN reg THEN "duplicate"
    ELSE "register"

\* the registry after the loop body for the layout at index k (0-based):
\* `registry[layout_name] = idx` sets the entry, new or not
RegistryStep(reg, layout, k) ==
    IF RegistryBranch(reg, layout) = "register"
    THEN [n \in DOMAIN reg \cup {layout.name} |-> IF n = layout.name THEN k ELSE reg[n]]
    ELSE reg

\* the loop over prs.slide_layouts from position n (1-based) on
RECURSIVE RegistryFold(_, _, _)
RegistryFold(reg, layouts, n) ==
    IF n > Len(layouts) THEN reg
    ELSE RegistryFold(RegistryStep(reg, layouts[n], n - 1), layouts, n + 1)

\* load_layout_registry(template_path) on an existing template
LoadLayoutRegistry(layouts) == RegistryFold(<<>>, layouts, 1)

----------------------------------------------------------------------------
(* PresentationGenerator._parse_legacy_fallback *)

TITLE_CANDIDATES ==
    <<<<"T","i","t","l","e"," ","S","l","i","d","e">>,
      <<"t","i","t","l","e","-","s","l","i","d","e">>,
      <<"T","i","t","l","e">>,
      <<"t","i","t","l","e">>>>
CONTENT_CANDIDATES ==
    <<<<"T","i","t","l","e"," ","a","n","d"," ","C","o","n","t","e","n","t">>,
      <<"c","o","n","t","e","n","t">>,
      <<"C","o","n","t","e","n","t">>,
      <<"B","o","d","y">>>>

\* `for candidate in ...: if candidate in registry: ...; break`
FirstCandidate(candidates, reg) ==
    IF \A k \in 1..Len(candidates) : candidates[k] \notin DOMAIN reg THEN None
    ELSE candidates[CHOOSE k \in 1..Len(candidates) :
                        /\ candidates[k] \in DOMAIN reg
                        /\ \A j \in 1..(k-1) : candidates[j] \notin DOMAIN reg]

\* the layout the fallback gives a legacy dict
LegacyLayout(slide_dict, reg) ==
    LET inferred == IF slide_dict.layout \notin {None, <<>>} THEN slide_dict.layout
                    ELSE IF slide_dict.is_title THEN FirstCandidate(TITLE_CANDIDATES, reg)
                    ELSE FirstCandidate(CONTENT_CANDIDATES, reg)
        available == GetAvailableLayoutNames(reg)
    IN  IF inferred \in {None, <<>>} \/ inferred \notin DOMAIN reg
        THEN IF available # <<>> THEN available[1] ELSE CONTENT_CANDIDATES[1]
        ELSE inferred

\* the SlideData the fallback makes of a legacy dict
LegacySlideData(slide_dict, reg) ==
    [layout_name    |-> LegacyLayout(slide_dict, reg),
     title          |-> slide_dict.title,
     content_blocks |-> IF slide_dict.content # <<>> THEN <<slide_dict.content>>
                        ELSE IF slide_dict.subtitle # <<>> THEN <<slide_dict.subtitle>>
                        ELSE <<>>,
     images         |-> <<>>,
     section_name   |-> slide_dict.section_name,
     raw_content    |-> <<>>,
     options        |-> <<>>]

\* the mutant of ParseLegacyFallback: the loop stops after the first dict
ParseLegacyFallback_FirstOnly(text, reg) ==
    LET parsed == ParseMarkdownSlides(text)
    IN  [raised |-> parsed.raised,
         slides |-> [k \in 1..(IF parsed.slides = <<>> THEN 0 ELSE 1) |->
                        LegacySlideData(parsed.slides[k], reg)]]

\* _parse_legacy_fallback(content_path, registry)
ParseLegacyFallback(text, reg) ==
    LET parsed == ParseMarkdownSlides(text)
    IN  [raised |-> parsed.raised,
         slides |-> [k \in 1..Len(parsed.slides) |-> LegacySlideData(parsed.slides[k], reg)]]

----------------------------------------------------------------------------
(* The files of a run of generate *)

MAIN_PATH    == <<"m">>      \* config.template_path
CONTENT_PATH == <<"c">>      \* config.content_path
ALT_PATH     == <<"t">>      \* a second template, project_root / "t"

KEY_TEMPLATE == <<"t","e","m","p","l","a","t","e">>

\* a file: a content file has text, a template has layouts (name and number
\* of placeholders of each) and slides
File(text, layouts, n) == [exists |-> TRUE, text |-> text, layouts |-> layouts, slides |-> n]
NoFile == [exists |-> FALSE, text |-> <<>>, layouts |-> <<>>, slides |-> 0]

\* the templates at config.template_path: one with layout A and a layout B
\* without placeholders, holding two slides; one with "Title and Content"
\* and layout A twice, holding no slide
MainTemplates ==
    {File(<<>>, <<[name |-> NAME_A, placeholders |-> 1],
                  [name |-> <<"B">>, placeholders |-> 0]>>, 2),
     File(<<>>, <<[name |-> CONTENT_CANDIDATES[1], placeholders |-> 2],
                  [name |-> NAME_A, placeholders |-> 1],
                  [name |-> NAME_A, placeholders |-> 2]>>, 0)}

\* the templates at the second path: one without usable layouts, one with
\* layout B only
AltTemplates ==
    {File(<<>>, <<[name |-> <<"B">>, placeholders |-> 0]>>, 1),
     File(<<>>, <<[name |-> <<"B">>, placeholders |-> 1]>>, 1)}

MaxGenSlides == 2

\* the content files: an opening (nothing; a document frontmatter
\* `title: T`; one that names a template, `template: t`; one that is no
\* mapping, `a:b`), then at most MaxGenSlides slides: those of the parse
\* runs or a legacy title slide
GenDocuments ==
    {JoinNL(h \o Flatten(d)) :
        h \in {<<>>,
               <<SEPARATOR, <<"t","i","t","l","e",":"," ","T">>, SEPARATOR>>,
               <<SEPARATOR, <<"t","e","m","p","l","a","t","e",":"," ","t">>, SEPARATOR>>,
               <<SEPARATOR, NOTE, SEPARATOR>>},
        d \in SeqsUpTo(DeckSlides \cup {<<SEPARATOR, TITLE_CLASS, HEADING, TEXT>>},
                       MaxGenSlides)}

\* the file at a path
FileAt(fs, path) == IF path \in DOMAIN fs THEN fs[path] ELSE NoFile

----------------------------------------------------------------------------
(* build_slide and populate_slide *)

\* a slide of a presentation: one the template came with, or the one
\* build_slide made for the SlideData at position k
TemplateSlide(k) == [origin |-> "template", index |-> k, layout |-> None, populated |-> FALSE]
BuiltSlide(k, data, done) ==
    [origin |-> "slide_data", index |-> k, layout |-> data.layout_name, populated |-> done]

\* the stages of one pass of the loop at which an exception can come up:
\* build_slide needs the layout in the registry
FailStages(data, reg) ==
    IF data.layout_name \in DOMAIN reg THEN {"build", "populate"} ELSE {"build"}

\* the presentation after a pass that failed at a stage: a slide that
\* build_slide has added stays
AfterFailure(slide_list, k, data, stage) ==
    IF stage = "populate" THEN Append(slide_list, BuiltSlide(k, data, FALSE)) ELSE slide_list

----------------------------------------------------------------------------
(* PresentationGenerator.generate *)

\* no parser run of its own
ParseIdle ==
    /\ markdown_content = <<>>
    /\ strict = FALSE
    /\ lines = <<>>
    /\ i = 1
    /\ slides = <<>>
    /\ current_slide_lines = <<>>
    /\ in_frontmatter = FALSE
    /\ boundaries = 0
    /\ stray = 0
    /\ slide_data = <<>>

\* what a run of generate leaves alone
notGen == <<markdown_content, strict, splitVars, slide_data, files, template_override,
            textVars, callVars>>

GenInit ==
    /\ ParseIdle
    /\ frame_content = <<>>
    /\ text_frame = <<>>
    /\ call = None
    /\ result = None
    /\ \E main \in MainTemplates \cup {NoFile}, alt \in AltTemplates \cup {NoFile},
          content \in {File(t, <<>>, 0) : t \in GenDocuments} \cup {NoFile} :
          files = (MAIN_PATH :> main) @@ (ALT_PATH :> alt) @@ (CONTENT_PATH :> content)
    /\ template_override \in {None, ALT_PATH}
    /\ template_path = None
    /\ registry = <<>>
    /\ doc_frontmatter = <<>>
    /\ slide_data_list = <<>>
    /\ prs = <<>>
    /\ output = <<>>
    /\ saves = 0
    /\ legacy = FALSE
    /\ errors = <<>>
    /\ pc = "validate"
    /\ idx = 1
    /\ raised = NoError
    /\ warnings = <<>>

\* config.validate_paths(): the template and the content file exist
ValidatePaths(fs) == FileAt(fs, MAIN_PATH).exists /\ FileAt(fs, CONTENT_PATH).exists

\* validate_paths, which raises FileNotFoundError, and the choice of the
\* template
GenValidatePaths ==
    /\ pc = "validate"
    /\ IF ValidatePaths(files)
       THEN /\ template_path' = IF template_override # None THEN template_override
                                                             ELSE MAIN_PATH
            /\ pc' = "load_registry"
            /\ UNCHANGED raised
       ELSE /\ raised' = [type |-> "FileNotFoundError"]
            /\ pc' = "raised"
            /\ UNCHANGED template_path
    /\ UNCHANGED <<notGen, registry, doc_frontmatter, slide_data_list, prs, output, saves,
                   legacy, errors, idx, warnings>>

\* registry = load_layout_registry(template_path), which raises
\* FileNotFoundError
GenLoadRegistry ==
    /\ pc = "load_registry"
    /\ IF FileAt(files, template_path).exists
       THEN /\ registry' = LoadLayoutRegistry(FileAt(files, template_path).layouts)
            /\ pc' = "parse_file"
            /\ UNCHANGED raised
       ELSE /\ raised' = [type |-> "FileNotFoundError"]
            /\ pc' = "raised"
            /\ UNCHANGED registry
    /\ UNCHANGED <<notGen, template_path, doc_frontmatter, slide_data_list, prs, output,
                   saves, legacy, errors, idx, warnings>>

\* the text of the content file
ContentText == FileAt(files, CONTENT_PATH).text

\* parse_markdown_file(..., strict=False): it returns, or raises a
\* ValueError that generate catches, or raises another exception
GenParseMarkdown ==
    /\ pc = "parse_file"
    /\ \E r \in {ParseMarkdownFile(ContentText, registry, FALSE)} :
          IF r.raised.type \in {"none", "ValueError"}
          THEN /\ doc_frontmatter' = IF r.raised.type = "none" THEN r.doc_frontmatter ELSE <<>>
               /\ slide_data_list' = IF r.raised.type = "none" THEN r.slides ELSE <<>>
               /\ warnings' = r.warnings
               /\ pc' = "fallback"
               /\ UNCHANGED raised
          ELSE /\ raised' = [type |-> r.raised.type]
               /\ pc' = "raised"
               /\ UNCHANGED <<doc_frontmatter, slide_data_list, warnings>>
    /\ UNCHANGED <<notGen, template_path, registry, prs, output, saves, legacy, errors, idx>>

\* `if not slide_data_list`: the legacy parser reads the file again
GenLegacyFallback ==
    /\ pc = "fallback"
    /\ slide_data_list = <<>>
    /\ \E r \in {ParseLegacyFallback(ContentText, registry)} :
          IF r.raised.type = "none"
          THEN /\ slide_data_list' = r.slides
               /\ pc' = "template"
               /\ UNCHANGED raised
          ELSE /\ raised' = [type |-> r.raised.type]
               /\ pc' = "raised"
               /\ UNCHANGED slide_data_list
    /\ legacy' = TRUE
    /\ UNCHANGED <<notGen, template_path, registry, doc_frontmatter, prs, output, saves,
                   errors, idx, warnings>>

\* the new parser found slides
GenKeepParsed ==
    /\ pc = "fallback"
    /\ slide_data_list # <<>>
    /\ pc' = "template"
    /\ UNCHANGED <<notGen, template_path, registry, doc_frontmatter, slide_data_list, prs,
                   output, saves, legacy, errors, idx, raised, warnings>>

\* `'template' in doc_frontmatter and not template_override`, and the
\* template named differs from the one in use
NamesNewTemplate ==
    /\ KEY_TEMPLATE \in DOMAIN doc_frontmatter
    /\ template_override = None
    /\ doc_frontmatter[KEY_TEMPLATE] # template_path

GenKeepTemplate ==
    /\ pc = "template"
    /\ ~NamesNewTemplate
    /\ pc' = "open"
    /\ UNCHANGED <<notGen, template_path, registry, doc_frontmatter, slide_data_list, prs,
                   output, saves, legacy, errors, idx, raised, warnings>>

\* the template of the frontmatter: load_layout_registry raises
\* FileNotFoundError; with layouts to use it replaces the template and the
\* registry; without, a warning
GenFrontmatterTemplate ==
    /\ pc = "template"
    /\ NamesNewTemplate
    /\ \E new \in {FileAt(files, doc_frontmatter[KEY_TEMPLATE])} :
          IF ~new.exists
          THEN /\ raised' = [type |-> "FileNotFoundError"]
               /\ pc' = "raised"
               /\ UNCHANGED <<template_path, registry>>
          ELSE IF GetAvailableLayoutNames(LoadLayoutRegistry(new.layouts)) # <<>>
          THEN /\ template_path' = doc_frontmatter[KEY_TEMPLATE]
               /\ registry' = LoadLayoutRegistry(new.layouts)
               /\ pc' = "open"
               /\ UNCHANGED raised
          ELSE /\ pc' = "open"
               /\ UNCHANGED <<template_path, registry, raised>>
    /\ UNCHANGED <<notGen, doc_frontmatter, slide_data_list, prs, output, saves, legacy,
                   errors, idx, warnings>>

\* prs = Presentation(str(template_path)): the slides the template holds
GenOpenTemplate ==
    /\ pc = "open"
    /\ prs' = [k \in 1..FileAt(files, template_path).slides |-> TemplateSlide(k)]
    /\ pc' = "clear"
    /\ UNCHANGED <<notGen, template_path, registry, doc_frontmatter, slide_data_list,
                   output, saves, legacy, errors, idx, raised, warnings>>

\* the mutant of HasSlides: the loop stops at one slide
HasSlides_LeavesOne(slide_list) == Len(slide_list) > 1

\* `while len(prs.slides) > 0`
HasSlides(slide_list) == Len(slide_list) > 0

\* one pass of the loop that removes the slides of the template
GenRemoveSlide ==
    /\ pc = "clear"
    /\ HasSlides(prs)
    /\ prs' = Tail(prs)
    /\ UNCHANGED <<notGen, template_path, registry, doc_frontmatter, slide_data_list,
                   output, saves, legacy, errors, idx, raised, warnings, pc>>

\* the loop is over
GenStartBuild ==
    /\ pc = "clear"
    /\ ~HasSlides(prs)
    /\ pc' = "build"
    /\ UNCHANGED <<notGen, template_path, registry, doc_frontmatter, slide_data_list, prs,
                   output, saves, legacy, errors, idx, raised, warnings>>

\* the mutant of LoopDone: the save does not wait for the loop
LoopDone_Early(k, list) == TRUE

\* the loop over slide_data_list is over
LoopDone(k, list) == k > Len(list)

\* build_slide and populate_slide return
GenBuildSlide ==
    /\ pc = "build"
    /\ ~LoopDone(idx, slide_data_list)
    /\ slide_data_list[idx].layout_name \in DOMAIN registry
    /\ prs' = Append(prs, BuiltSlide(idx, slide_data_list[idx], TRUE))
    /\ idx' = idx + 1
    /\ UNCHANGED <<notGen, template_path, registry, doc_frontmatter, slide_data_list,
                   output, saves, legacy, errors, raised, warnings, pc>>

\* build_slide or populate_slide raises ValueError: logged, `continue`
GenSlideValueError ==
    /\ pc = "build"
    /\ ~LoopDone(idx, slide_data_list)
    /\ \E stage \in FailStages(slide_data_list[idx], registry) :
          prs' = AfterFailure(prs, idx, slide_data_list[idx], stage)
    /\ errors' = Append(errors, idx)
    /\ idx' = idx + 1
    /\ UNCHANGED <<notGen, template_path, registry, doc_frontmatter, slide_data_list,
                   output, saves, legacy, raised, warnings, pc>>

\* build_slide or populate_slide raises any other exception: logged, `raise`
GenSlideUnexpected ==
    /\ pc = "build"
    /\ ~LoopDone(idx, slide_data_list)
    /\ \E stage \in FailStages(slide_data_list[idx], registry) :
          prs' = AfterFailure(prs, idx, slide_data_list[idx], stage)
    /\ errors' = Append(errors, idx)
    /\ raised' = [type |-> "Exception"]
    /\ pc' = "raised"
    /\ UNCHANGED <<notGen, template_path, registry, doc_frontmatter, slide_data_list,
                   output, saves, legacy, idx, warnings>>

\* prs.save(str(output_path))
GenSave ==
    /\ pc = "build"
    /\ LoopDone(idx, slide_data_list)
    /\ output' = prs
    /\ saves' = saves + 1
    /\ pc' = "done"
    /\ UNCHANGED <<notGen, template_path, registry, doc_frontmatter, slide_data_list, prs,
                   legacy, errors, idx, raised, warnings>>

GenNext ==
    \/ GenValidatePaths
    \/ GenLoadRegistry
    \/ GenParseMarkdown
    \/ GenLegacyFallback
    \/ GenKeepParsed
    \/ GenKeepTemplate
    \/ GenFrontmatterTemplate
    \/ GenOpenTemplate
    \/ GenRemoveSlide
    \/ GenStartBuild
    \/ GenBuildSlide
    \/ GenSlideValueError
    \/ GenSlideUnexpected
    \/ GenSave

SpecGen == GenInit /\ [][GenNext]_vars

----------------------------------------------------------------------------
(* Claims about generate *)

\* generate has saved the presentation
Saved == saves > 0

\* the segments parse_slides finds in the content file
FileSegments == SplitIntoSlides(ParseDocumentFrontmatter(ContentText).remaining)

\* the registry the content is parsed against
ParseTimeRegistry ==
    LoadLayoutRegistry(
        FileAt(files, IF template_override # None THEN template_override ELSE MAIN_PATH).layouts)

\* the segment names a layout of the registry reg
LayoutIn(raw, reg) ==
    /\ SegmentReadable(raw)
    /\ Get(SegmentFrontmatter(raw).frontmatter, KEY_LAYOUT) \in DOMAIN reg

\* the segment names no layout, or one that is not in the registry reg
LayoutNotIn(raw, reg) ==
    /\ SegmentReadable(raw)
    /\ Get(SegmentFrontmatter(raw).frontmatter, KEY_LAYOUT) \notin DOMAIN reg

\* positions of the segments with and without a valid layout
ValidSegments(segs, reg)   == {k \in 1..Len(segs) : LayoutIn(segs[k], reg)}
InvalidSegments(segs, reg) == {k \in 1..Len(segs) : LayoutNotIn(segs[k], reg)}

\* the content has been parsed and generate goes on
Parsed == pc \in {"template", "open", "clear", "build", "done"}

\* C4 as stated: an exception of any type raised while one slide is built or
\* populated is caught and logged, the slide is skipped, the later ones are
\* attempted and the deck is saved: a run in which a slide has failed never
\* ends with an exception.
C4_AnyFailureIsolated ==
    errors # <<>> => pc # "raised"

\* what does hold: a ValueError of one slide is logged and the loop goes on
C4_ValueErrorIsolated ==
    (errors # <<>> /\ pc # "raised") => pc \in {"build", "done"}

\* C5: the presentation is saved at most once, and only when the loop over
\* slide_data_list is over; a run that ends with an exception (a missing
\* template or content file, a registry or a content that cannot be read)
\* has saved nothing, and without a save there is no output.
C5_SingleSave ==
    /\ saves <= 1
    /\ Saved => /\ pc = "done"
                /\ idx > Len(slide_data_list)
                /\ output = prs
    /\ pc = "raised" => ~Saved
    /\ ~Saved => output = <<>>

\* a deck of two slides has been saved
C5_Witness ==
    /\ Saved
    /\ pc = "done"
    /\ Len(slide_data_list) = 2
    /\ Len(output) = 2

\* the template named by the frontmatter is missing: no output
C5_Aborted ==
    /\ pc = "raised"
    /\ raised.type = "FileNotFoundError"
    /\ slide_data_list # <<>>
    /\ ~Saved

\* C6: every slide the template came with is removed before the first new
\* slide is appended, and the saved deck holds only slides built from
\* slide_data_list, each with the layout of its SlideData, in input order.
C6_DeckFromSlideData ==
    /\ pc \in {"build", "done"} =>
          \A k \in 1..Len(prs) : prs[k].origin = "slide_data"
    /\ Saved =>
          \A k \in 1..Len(output) :
              /\ output[k].origin = "slide_data"
              /\ output[k].index \in 1..Len(slide_data_list)
              /\ output[k].layout = slide_data_list[output[k].index].layout_name
              /\ \A j \in 1..(k - 1) : output[j].index < output[k].index

\* a template that held slides, a saved deck of two new slides
C6_Witness ==
    /\ Saved
    /\ FileAt(files, template_path).slides > 0
    /\ Len(output) = 2
    /\ output[1].index = 1
    /\ output[2].index = 2

C8_AllInvalidBuilt ==
    /\ Saved
    /\ legacy
    /\ InvalidSegments(FileSegments, ParseTimeRegistry) # {}
    /\ Len(output) > 0

----------------------------------------------------------------------------
(* load_layout_registry, step by step *)

MaxLayouts == 3

\* the layouts of a template: "Title" and "Text", with and without
\* placeholders, at most MaxLayouts of them
RegLayouts ==
    SeqsUpTo({[name |-> n, placeholders |-> c] :
                n \in {<<"T","i","t","l","e">>, <<"T","e","x","t">>}, c \in {0, 1}},
             MaxLayouts)

\* what a run of load_layout_registry leaves alone
notReg == <<markdown_content, strict, splitVars, slide_data, files, template_override,
            template_path, doc_frontmatter, slide_data_list, prs, output, saves, legacy,
            errors, textVars, callVars>>

\* load_layout_registry(template_path) is called; idx is the position of
\* enumerate, from 0
RegInit ==
    /\ ParseIdle
    /\ frame_content = <<>>
    /\ text_frame = <<>>
    /\ call = None
    /\ result = None
    /\ idx = 0
    /\ \E main \in {File(<<>>, l, 0) : l \in RegLayouts} \cup {NoFile} :
          files = (MAIN_PATH :> main)
    /\ template_override = None
    /\ template_path = MAIN_PATH
    /\ registry = <<>>
    /\ doc_frontmatter = <<>>
    /\ slide_data_list = <<>>
    /\ prs = <<>>
    /\ output = <<>>
    /\ saves = 0
    /\ legacy = FALSE
    /\ errors = <<>>
    /\ pc = "reg_open"
    /\ raised = NoError
    /\ warnings = <<>>

\* prs.slide_layouts
SlideLayouts == FileAt(files, template_path).layouts

\* `if not path.exists(): raise FileNotFoundError`, else the template is
\* opened and the registry is empty
RegOpen ==
    /\ pc = "reg_open"
    /\ IF FileAt(files, template_path).exists
       THEN pc' = "reg_loop" /\ UNCHANGED raised
       ELSE pc' = "raised" /\ raised' = [type |-> "FileNotFoundError"]
    /\ UNCHANGED <<notReg, registry, idx, warnings>>

\* the layout has no placeholders: a debug message, `continue`
RegSkipLayout ==
    /\ pc = "reg_loop"
    /\ idx < Len(SlideLayouts)
    /\ RegistryBranch(registry, SlideLayouts[idx + 1]) = "no_placeholders"
    /\ registry' = RegistryStep(registry, SlideLayouts[idx + 1], idx)
    /\ idx' = idx + 1
    /\ UNCHANGED <<notReg, pc, raised, warnings>>

\* the name is registered: a warning with both indices, `continue`
RegDuplicate ==
    /\ pc = "reg_loop"
    /\ idx < Len(SlideLayouts)
    /\ RegistryBranch(registry, SlideLayouts[idx + 1]) = "duplicate"
    /\ warnings' = Append(warnings, [name     |-> SlideLayouts[idx + 1].name,
                                     index    |-> idx,
                                     existing |-> registry[SlideLayouts[idx + 1].name]])
    /\ registry' = RegistryStep(registry, SlideLayouts[idx + 1], idx)
    /\ idx' = idx + 1
    /\ UNCHANGED <<notReg, pc, raised>>

\* registry[layout_name] = idx
RegRegister ==
    /\ pc = "reg_loop"
    /\ idx < Len(SlideLayouts)
    /\ RegistryBranch(registry, SlideLayouts[idx + 1]) = "register"
    /\ registry' = RegistryStep(registry, SlideLayouts[idx + 1], idx)
    /\ idx' = idx + 1
    /\ UNCHANGED <<notReg, pc, raised, warnings>>

\* return registry
RegReturn ==
    /\ pc = "reg_loop"
    /\ idx = Len(SlideLayouts)
    /\ pc' = "reg_done"
    /\ UNCHANGED <<notReg, registry, idx, raised, warnings>>

RegNext ==
    \/ RegOpen
    \/ RegSkipLayout
    \/ RegDuplicate
    \/ RegRegister
    \/ RegReturn

SpecReg == RegInit /\ [][RegNext]_vars

\* the positions (0-based) of the layouts of a name that have placeholders
Usable(name) ==
    {k \in 0..(Len(SlideLayouts) - 1) :
        SlideLayouts[k + 1].name = name /\ SlideLayouts[k + 1].placeholders > 0}

\* the registry the generator gets is the one the loop builds
RegistryAgrees == pc = "reg_done" => registry = LoadLayoutRegistry(SlideLayouts)

\* C9: the registry that load_layout_registry returns holds exactly the
\* names that some layout with at least one placeholder has, each mapped to
\* the position of the first such layout; a layout without placeholders is
\* under no entry, and each later layout with placeholders and a registered
\* name has left one warning that names the first position, and nothing
\* else.
C9_FirstUsableWins ==
    pc = "reg_done" =>
        /\ DOMAIN registry = {SlideLayouts[k].name : k \in {j \in 1..Len(SlideLayouts) :
                                                            Usable(SlideLayouts[j].name) # {}}}
        /\ \A name \in DOMAIN registry :
              /\ registry[name] \in Usable(name)
              /\ \A k \in Usable(name) : registry[name] <= k
        /\ \A k \in 1..Len(SlideLayouts) :
              SlideLayouts[k].placeholders = 0 =>
                  \A name \in DOMAIN registry : registry[name] # k - 1
        /\ {warnings[w].index : w \in 1..Len(warnings)}
             = {k \in 0..(Len(SlideLayouts) - 1) :
                   \E j \in Usable(SlideLayouts[k + 1].name) :
                       j < k /\ k \in Usable(SlideLayouts[k + 1].name)}
        /\ \A w \in 1..Len(warnings) :
              warnings[w].existing = registry[warnings[w].name]
        /\ Len(warnings) = Cardinality({warnings[w].index : w \in 1..Len(warnings)})

\* the example: Title at 0, Text at 1 and at 2, all with placeholders; the
\* registry holds Text at 1 and one warning was logged for position 2
C9_Witness ==
    /\ pc = "reg_done"
    /\ SlideLayouts = <<[name |-> <<"T","i","t","l","e">>, placeholders |-> 1],
                        [name |-> <<"T","e","x","t">>, placeholders |-> 1],
                        [name |-> <<"T","e","x","t">>, placeholders |-> 1]>>
    /\ registry[<<"T","e","x","t">>] = 1
    /\ registry[<<"T","i","t","l","e">>] = 0
    /\ Len(warnings) = 1
    /\ warnings[1].index = 2

\* a layout without placeholders came before one with the same name that
\* has some: the name is registered at the later position
C9_SkippedThenRegistered ==
    /\ pc = "reg_done"
    /\ \E name \in DOMAIN registry :
          \E k \in 1..Len(SlideLayouts) :
              /\ SlideLayouts[k].name = name
              /\ SlideLayouts[k].placeholders = 0
              /\ k - 1 < registry[name]

----------------------------------------------------------------------------
(* html_media: has_html_content and remove_html_tags *)

\* re.search(r'<[^>]+>', text)
HasHtmlContent(text) ==
    \E k \in 1..Len(text) :
        /\ text[k] = "<"
        /\ k + 1 <= Len(text)
        /\ text[k + 1] # ">"
        /\ \E j \in (k + 2)..Len(text) : text[j] = ">"

\* re.sub(r'<div[^>]*>.*?</div>', '', text, flags=re.DOTALL): a match
\* starts at the first `<div`, runs over the first `>` after it and ends
\* with the first `</div>` after that
RECURSIVE RemoveDivBlocks(_)
RemoveDivBlocks(text) ==
    LET open  == FindSub(text, <<"<","d","i","v">>)
        close == IF open = 0 THEN 0 ELSE FindSub(From(text, open + 3), <<">">>)
        stop  == IF close = 0 THEN 0
                 ELSE FindSub(From(text, open + 3 + close), <<"<","/","d","i","v",">">>)
    IN  IF stop = 0 THEN text
        ELSE SubSeq(text, 1, open - 1)
                 \o RemoveDivBlocks(From(text, open + 3 + close + stop + 5))

\* re.sub(r'<[^>]+>', '', text)
RECURSIVE RemoveTags(_)
RemoveTags(text) ==
    IF text = <<>> THEN <<>>
    ELSE IF /\ text[1] = "<"
            /\ Len(text) >= 3
            /\ text[2] # ">"
            /\ FindSub(From(text, 2), <<">">>) > 0
    THEN RemoveTags(From(text, 2 + FindSub(From(text, 2), <<">">>)))
    ELSE <<text[1]>> \o RemoveTags(Tail(text))

\* remove_html_tags(text): the spacer markers are kept
RemoveHtmlTags(text) ==
    Strip(Replace(RemoveTags(RemoveDivBlocks(Replace(text, SPACER_MARKER, <<"_","_","P","R","E","S","E","R","V","E","D","_","M","A","R","K","E","R","_","0","_","_">>))),
                  <<"_","_","P","R","E","S","E","R","V","E","D","_","M","A","R","K","E","R","_","0","_","_">>, SPACER_MARKER))

----------------------------------------------------------------------------
(* rich_text: bullets and numbering *)

BULLET_MARGIN_EMU     == 457200
BULLET_INDENT_EMU     == -457200
SUB_BULLET_MARGIN_EMU == 914400
SUB_BULLET_INDENT_EMU == -457200

\* add_bullet(paragraph, level): the hanging indent of the level and a
\* bullet character, which the source holds as the three characters
\* U+00E2 U+20AC U+00A2
AddBullet(level) ==
    [marL   |-> IF level = 0 THEN BULLET_MARGIN_EMU ELSE SUB_BULLET_MARGIN_EMU,
     indent |-> IF level = 0 THEN BULLET_INDENT_EMU ELSE SUB_BULLET_INDENT_EMU,
     bullet |-> [kind |-> "buChar", char |-> <<226, 8364, 162>>]]

\* remove_bullet(paragraph)
RemoveBullet == [marL |-> 0, indent |-> 0, bullet |-> [kind |-> "buNone"]]

\* add_numbering without the call of _set_paragraph_margins
AddNumbering_NoMargins(start_at) ==
    [marL   |-> 0,
     indent |-> 0,
     bullet |-> [kind |-> "buAutoNum", startAt |-> IF start_at > 1 THEN start_at ELSE None]]

\* add_numbering(paragraph, start_at, numbering_type)
AddNumbering(start_at) ==
    [marL   |-> BULLET_MARGIN_EMU,
     indent |-> BULLET_INDENT_EMU,
     bullet |-> [kind |-> "buAutoNum", startAt |-> IF start_at > 1 THEN start_at ELSE None]]

----------------------------------------------------------------------------
(* slide_builders._populate_content_text_frame *)

DIGITS == <<"0","1","2","3","4","5","6","7","8","9">>

\* int(s) for a string of digits
RECURSIVE ToInt(_)
ToInt(s) ==
    IF s = <<>> THEN 0
    ELSE 10 * ToInt(SubSeq(s, 1, Len(s) - 1))
             + (CHOOSE d \in 0..9 : DIGITS[d + 1] = s[Len(s)])

\* re.match(r'^(\d+)\.\s+(.*)$', line_stripped): digits, a period,
\* whitespace, the text
NumberedMatch(line_stripped) ==
    LET IsDigit(c) == \E d \in 1..10 : DIGITS[d] = c
        n == CHOOSE k \in 0..Len(line_stripped) :
                 /\ \A j \in 1..k : IsDigit(line_stripped[j])
                 /\ k = Len(line_stripped) \/ ~IsDigit(line_stripped[k + 1])
    IN  [matched |-> /\ n > 0
                     /\ Len(line_stripped) >= n + 2
                     /\ line_stripped[n + 1] = "."
                     /\ IsSpace(line_stripped[n + 2]),
         num     |-> ToInt(SubSeq(line_stripped, 1, n)),
         text    |-> SkipSpaces(From(line_stripped, n + 1))]

\* the paragraph the loop body adds for a line that is not blank: the
\* text handed to add_formatted_text, the level (0 where the code sets
\* none), margins and bullet, and the font size by its key in the config
Paragraph(line_stripped) ==
    IF line_stripped = SPACER_MARKER
    THEN [kind |-> "spacer", text |-> <<" ">>, level |-> 0, font |-> "spacer"] @@ RemoveBullet
    ELSE IF StartsWith(line_stripped, <<"#","#","#","#","#"," ">>)
    THEN [kind |-> "header", text |-> From(line_stripped, 6), level |-> 0,
          font |-> "h5_header"] @@ RemoveBullet
    ELSE IF StartsWith(line_stripped, <<"#","#","#","#"," ">>)
    THEN [kind |-> "header", text |-> From(line_stripped, 5), level |-> 0,
          font |-> "h4_header"] @@ RemoveBullet
    ELSE IF StartsWith(line_stripped, <<"#","#","#"," ">>)
    THEN [kind |-> "header", text |-> From(line_stripped, 4), level |-> 0,
          font |-> "h3_header"] @@ RemoveBullet
    ELSE IF StartsWith(line_stripped, <<"#","#"," ">>)
    THEN [kind |-> "header", text |-> From(line_stripped, 3), level |-> 0,
          font |-> "h2_header"] @@ RemoveBullet
    ELSE IF StartsWith(line_stripped, <<"-"," ">>)
    THEN [kind |-> "bullet", text |-> From(line_stripped, 2), level |-> 0,
          font |-> "bullet"] @@ AddBullet(0)
    ELSE IF StartsWith(line_stripped, <<" "," ","-"," ">>)
    THEN [kind |-> "sub_bullet", text |-> From(line_stripped, 4), level |-> 1,
          font |-> "bullet"] @@ AddBullet(1)
    ELSE IF NumberedMatch(line_stripped).matched
    THEN [kind |-> "numbered", text |-> NumberedMatch(line_stripped).text, level |-> 0,
          font |-> "numbered"] @@ AddNumbering(NumberedMatch(line_stripped).num)
    ELSE [kind |-> "text", text |-> line_stripped, level |-> 0,
          font |-> "body_text"] @@ RemoveBullet

MaxContentLines == 3

\* the content blocks: at most MaxContentLines lines, each a bullet, an
\* indented bullet, a header, plain text, blank, a spacer marker, a
\* numbered item or text in a tag.  No line holds an `img` tag, so no
\* image is added to the slide.
Contents ==
    {JoinNL(l) : l \in SeqsUpTo({<<"-"," ","a">>, <<" "," ","-"," ","b">>, <<"#","#"," ","H">>,
                                 <<"#","#","#","#","#"," ","H">>, <<"x">>, <<>>,
                                 SPACER_MARKER, <<"2","."," ","n">>, <<"<","b",">","x">>},
                                MaxContentLines)}

\* what a run of _populate_content_text_frame leaves alone
notText == <<argVars, slides, current_slide_lines, in_frontmatter, boundaries, stray,
             parseVars, genVars, callVars>>

\* _populate_content_text_frame(text_frame, content, slide, config) is
\* called with a content, or populate_slide is at the content blocks that
\* _parse_content_blocks made of a slide's text, or at the SlideData that
\* parse_markdown_file made of the file with an empty document frontmatter
\* and the slide ---, layout: "Title", ---, # Hello, World against a
\* registry with the layout Title; the frame holds one paragraph or more
TextInit ==
    /\ GenIdle
    /\ call = None
    /\ result = None
    /\ markdown_content = <<>>
    /\ registry = <<>>
    /\ strict = FALSE
    /\ lines = <<>>
    /\ i = 1
    /\ slides = <<>>
    /\ current_slide_lines = <<>>
    /\ in_frontmatter = FALSE
    /\ boundaries = 0
    /\ stray = 0
    /\ idx = 1
    /\ raised = NoError
    /\ warnings = <<>>
    /\ \/ /\ slide_data = <<>>
          /\ frame_content \in Contents
          /\ pc = "text_clear"
       \/ /\ \E c \in Contents :
                slide_data = <<SlideDataFrom([frontmatter |-> <<>>, remaining |-> c])>>
          /\ frame_content = <<>>
          /\ pc = "text_populate"
       \/ /\ slide_data =
                ParseMarkdownFile(
                    JoinNL(<<SEPARATOR, SEPARATOR,
                             SEPARATOR, <<"l","a","y","o","u","t",":"," ","\"","T","i","t","l","e","\"">>, SEPARATOR,
                             <<"#"," ","H","e","l","l","o">>, <<"W","o","r","l","d">>>>),
                    (<<"T","i","t","l","e">> :> 0), FALSE).slides
          /\ frame_content = <<>>
          /\ pc = "text_populate"
    /\ text_frame \in {<<[kind |-> "template", text |-> <<>>]>>,
                        <<[kind |-> "template", text |-> <<"x">>],
                          [kind |-> "template", text |-> <<"x">>]>>}

\* populate_slide hands the content blocks of the SlideData, joined by
\* newlines, to _populate_content_text_frame
TextPopulate ==
    /\ pc = "text_populate"
    /\ frame_content' = JoinNL(slide_data[1].content_blocks)
    /\ pc' = "text_clear"
    /\ UNCHANGED <<notText, text_frame, lines, i>>

\* text_frame.clear(), which leaves one empty paragraph; the HTML is taken
\* out of the content; content.split
TextClear ==
    /\ pc = "text_clear"
    /\ text_frame' = <<[kind |-> "template", text |-> <<>>]>>
    /\ frame_content' = IF HasHtmlContent(frame_content) THEN RemoveHtmlTags(frame_content)
                                                         ELSE frame_content
    /\ lines' = SplitNL(frame_content')
    /\ i' = 1
    /\ pc' = "text_loop"
    /\ UNCHANGED notText

\* `if not line_stripped: continue`
TextSkipLine ==
    /\ pc = "text_loop"
    /\ i <= Len(lines)
    /\ Strip(lines[i]) = <<>>
    /\ i' = i + 1
    /\ UNCHANGED <<notText, frame_content, text_frame, lines, pc>>

\* text_frame.add_paragraph() and its formatting
TextAddParagraph ==
    /\ pc = "text_loop"
    /\ i <= Len(lines)
    /\ Strip(lines[i]) # <<>>
    /\ text_frame' = Append(text_frame, Paragraph(Strip(lines[i])))
    /\ i' = i + 1
    /\ UNCHANGED <<notText, frame_content, lines, pc>>

\* the loop is over
TextReturn ==
    /\ pc = "text_loop"
    /\ i > Len(lines)
    /\ pc' = "text_done"
    /\ UNCHANGED <<notText, frame_content, text_frame, lines, i>>

TextNext ==
    \/ TextPopulate
    \/ TextClear
    \/ TextSkipLine
    \/ TextAddParagraph
    \/ TextReturn

SpecText == TextInit /\ [][TextNext]_vars

\* the lines of the content that are not blank, and the paragraphs the
\* loop has added after the one that clear() leaves
SourceLines == SelectSeq(lines, LAMBDA l : Strip(l) # <<>>)
Added == Tail(text_frame)

\* a bullet paragraph of a level, with the hanging indent of the level:
\* 0.5in and -0.5in at level 0, 1.0in and -0.5in at level 1 (914400 EMU
\* to the inch)
IsBulletOfLevel(p, level) ==
    /\ p.level = level
    /\ p.bullet.kind = "buChar"
    /\ p.bullet.char # <<>>
    /\ p.marL = IF level = 0 THEN 457200 ELSE 914400
    /\ p.indent = -457200

\* C10: when _populate_content_text_frame returns, a line of the content
\* that starts with `- ` has given a bullet paragraph of level 0, and a line
\* that starts with two spaces and `- ` has given a bullet paragraph of
\* level 1, each with the bullet character and the hanging indent of its
\* level; so `- a`, `  - b`, `- a` gives the levels 0, 1, 0.
C10_IndentedBulletIsLevelOne ==
    pc = "text_done" =>
        \A k \in 1..Len(SourceLines) :
            /\ StartsWith(SourceLines[k], <<"-"," ">>) => IsBulletOfLevel(Added[k], 0)
            /\ StartsWith(SourceLines[k], <<" "," ","-"," ">>) => IsBulletOfLevel(Added[k], 1)

\* what the code does: one paragraph for each line that is not blank, and
\* a bullet line gives a bullet paragraph of level 0 whatever its indent; no
\* paragraph has level 1
C10_EveryBulletIsLevelZero ==
    pc = "text_done" =>
        /\ Len(Added) = Len(SourceLines)
        /\ \A k \in 1..Len(SourceLines) :
              /\ StartsWith(Strip(SourceLines[k]), <<"-"," ">>) => IsBulletOfLevel(Added[k], 0)
              /\ Added[k].level = 0

\* the example of the claim has run: a bullet, an indented bullet, a bullet
C10_ExampleLevels ==
    /\ pc = "text_done"
    /\ lines = <<<<"-"," ","a">>, <<" "," ","-"," ","b">>, <<"-"," ","a">>>>
    /\ [k \in 1..3 |-> Added[k].level] = <<0, 0, 0>>
    /\ [k \in 1..3 |-> Added[k].text] = <<<<"a">>, <<"b">>, <<"a">>>>
    /\ \A k \in 1..3 : IsBulletOfLevel(Added[k], 0)

\* the lines of the text that _parse_content_blocks was given
RawLines == SplitNL(slide_data[1].raw_content)

\* the positions of the content lines: not blank, no section marker, and
\* not the first heading of level 1 or 2, which is the title
ContentAt ==
    {k \in 1..Len(RawLines) :
        /\ Strip(RawLines[k]) # <<>>
        /\ SectionMatch(Strip(RawLines[k])) = None
        /\ \/ ~(StartsWith(Strip(RawLines[k]), <<"#"," ">>)
                  \/ StartsWith(Strip(RawLines[k]), <<"#","#"," ">>))
           \/ \E j \in 1..(k - 1) :
                  \/ StartsWith(Strip(RawLines[j]), <<"#"," ">>)
                  \/ StartsWith(Strip(RawLines[j]), <<"#","#"," ">>)}

\* the content lines and the blank lines between the first and the last
\* content line, in order
InnerLines ==
    SelectSeq([k \in 1..Len(RawLines) |-> k],
              LAMBDA k : /\ \E a \in ContentAt : a <= k
                         /\ \E b \in ContentAt : k <= b
                         /\ k \in ContentAt \/ Strip(RawLines[k]) = <<>>)

\* a spacer paragraph: one space, no bullet, no margins
IsSpacerParagraph(p) ==
    /\ p.kind = "spacer"
    /\ p.text = <<" ">>
    /\ p.bullet.kind = "buNone"
    /\ p.marL = 0 /\ p.indent = 0

\* the text was parsed and the frame is populated; no line of the text is
\* itself the spacer marker
BlocksRendered ==
    /\ pc = "text_done"
    /\ slide_data # <<>>
    /\ \A k \in 1..Len(RawLines) : Strip(RawLines[k]) # SPACER_MARKER

\* C11: for a text without a literal spacer marker, the content blocks
\* hold one spacer marker for each blank line that lies between two content
\* lines, and none at either end; the formatter adds one paragraph for
\* each content line and one single-space paragraph without bullet for each
\* such blank line, in the order of the lines, so blank lines before the
\* first and after the last content line give no paragraph.
C11_SpacerPerInnerBlankLine ==
    BlocksRendered =>
        /\ Len(Added) = Len(InnerLines)
        /\ \A k \in 1..Len(InnerLines) :
              IsSpacerParagraph(Added[k]) <=> Strip(RawLines[InnerLines[k]]) = <<>>
        /\ Cardinality({k \in 1..Len(slide_data[1].content_blocks) :
                            slide_data[1].content_blocks[k] = SPACER_MARKER})
             = Cardinality({k \in 1..Len(InnerLines) : Strip(RawLines[InnerLines[k]]) = <<>>})
        /\ slide_data[1].content_blocks # <<>> =>
              /\ slide_data[1].content_blocks[1] # SPACER_MARKER
              /\ slide_data[1].content_blocks[Len(slide_data[1].content_blocks)]
                     # SPACER_MARKER

\* text, a blank line, text: three blocks, and a spacer paragraph between
\* the two text paragraphs
C11_Witness ==
    /\ BlocksRendered
    /\ RawLines = <<<<"x">>, <<>>, <<"x">>>>
    /\ slide_data[1].content_blocks = <<<<"x">>, SPACER_MARKER, <<"x">>>>
    /\ Len(Added) = 3
    /\ Added[1].kind = "text" /\ IsSpacerParagraph(Added[2]) /\ Added[3].kind = "text"

\* a blank line before the content and one after it: one paragraph
C11_OuterBlankLines ==
    /\ BlocksRendered
    /\ RawLines = <<<<>>, <<"x">>, <<>>>>
    /\ Len(Added) = 1
    /\ Added[1].kind = "text"

-----------------------------------------------------------------------------
(* placeholder_resolver.py *)

\* str.upper() on ASCII text
Upper(s) ==
    LET lower == <<"a","b","c","d","e","f","g","h","i","j","k","l","m","n","o","p","q","r","s","t","u","v","w","x","y","z">>
        upper == <<"A","B","C","D","E","F","G","H","I","J","K","L","M","N","O","P","Q","R","S","T","U","V","W","X","Y","Z">>
        Up(c) == IF \E k \in 1..26 : lower[k] = c
                 THEN upper[CHOOSE k \in 1..26 : lower[k] = c] ELSE c
    IN  [k \in 1..Len(s) |-> Up(s[k])]

\* a member of the enum PH_TYPE is written <<"PH_TYPE">> \o its name, which
\* no string equals; _PH_TYPE_ALIASES maps a string to a member
PH_TYPE_ALIASES ==
    LET E(n) == <<"PH_TYPE">> \o n
    IN  (<<"t","i","t","l","e">> :> E(<<"T","I","T","L","E">>)) @@ (<<"T","I","T","L","E">> :> E(<<"T","I","T","L","E">>))
        @@ (<<"c","e","n","t","e","r","_","t","i","t","l","e">> :> E(<<"C","E","N","T","E","R","_","T","I","T","L","E">>)) @@ (<<"C","E","N","T","E","R","_","T","I","T","L","E">> :> E(<<"C","E","N","T","E","R","_","T","I","T","L","E">>))
        @@ (<<"s","u","b","t","i","t","l","e">> :> E(<<"S","U","B","T","I","T","L","E">>)) @@ (<<"S","U","B","T","I","T","L","E">> :> E(<<"S","U","B","T","I","T","L","E">>))
        @@ (<<"b","o","d","y">> :> E(<<"B","O","D","Y">>)) @@ (<<"B","O","D","Y">> :> E(<<"B","O","D","Y">>))
        @@ (<<"c","o","n","t","e","n","t">> :> E(<<"B","O","D","Y">>)) @@ (<<"C","O","N","T","E","N","T">> :> E(<<"B","O","D","Y">>))
        @@ (<<"p","i","c","t","u","r","e">> :> E(<<"P","I","C","T","U","R","E">>)) @@ (<<"P","I","C","T","U","R","E">> :> E(<<"P","I","C","T","U","R","E">>))
        @@ (<<"i","m","a","g","e">> :> E(<<"P","I","C","T","U","R","E">>)) @@ (<<"I","M","A","G","E">> :> E(<<"P","I","C","T","U","R","E">>))
        @@ (<<"o","b","j","e","c","t">> :> E(<<"O","B","J","E","C","T">>)) @@ (<<"O","B","J","E","C","T">> :> E(<<"O","B","J","E","C","T">>))
        @@ (<<"c","h","a","r","t">> :> E(<<"C","H","A","R","T">>)) @@ (<<"C","H","A","R","T">> :> E(<<"C","H","A","R","T">>))
        @@ (<<"t","a","b","l","e">> :> E(<<"T","A","B","L","E">>)) @@ (<<"T","A","B","L","E">> :> E(<<"T","A","B","L","E">>))
        @@ (<<"f","o","o","t","e","r">> :> E(<<"F","O","O","T","E","R">>)) @@ (<<"F","O","O","T","E","R">> :> E(<<"F","O","O","T","E","R">>))
        @@ (<<"d","a","t","e">> :> E(<<"D","A","T","E">>)) @@ (<<"D","A","T","E">> :> E(<<"D","A","T","E">>))
        @@ (<<"s","l","i","d","e","_","n","u","m","b","e","r">> :> E(<<"S","L","I","D","E","_","N","U","M","B","E","R">>)) @@ (<<"S","L","I","D","E","_","N","U","M","B","E","R">> :> E(<<"S","L","I","D","E","_","N","U","M","B","E","R">>))

\* _resolve_ph_type(ph_type) for a member of PH_TYPE or a string: the member
\* as it is; the alias of the string; else the member that the upper-cased
\* string names, PH_TYPE[ph_type.upper()]; else ValueError
ResolvePhType(ph_type) ==
    LET members == {<<"T","I","T","L","E">>, <<"B","O","D","Y">>, <<"C","E","N","T","E","R","_","T","I","T","L","E">>, <<"S","U","B","T","I","T","L","E">>, <<"D","A","T","E">>,
                    <<"S","L","I","D","E","_","N","U","M","B","E","R">>, <<"F","O","O","T","E","R">>, <<"H","E","A","D","E","R">>, <<"O","B","J","E","C","T">>, <<"C","H","A","R","T">>, <<"T","A","B","L","E">>,
                    <<"O","R","G","_","C","H","A","R","T">>, <<"M","E","D","I","A","_","C","L","I","P">>, <<"B","I","T","M","A","P">>, <<"P","I","C","T","U","R","E">>, <<"S","L","I","D","E","_","I","M","A","G","E">>,
                    <<"V","E","R","T","I","C","A","L","_","B","O","D","Y">>, <<"V","E","R","T","I","C","A","L","_","O","B","J","E","C","T">>, <<"V","E","R","T","I","C","A","L","_","T","I","T","L","E">>, <<"M","I","X","E","D">>}
    IN  IF ph_type # <<>> /\ Head(ph_type) = "PH_TYPE"
        THEN [raised |-> "none", type |-> ph_type]
        ELSE IF ph_type \in DOMAIN PH_TYPE_ALIASES
        THEN [raised |-> "none", type |-> PH_TYPE_ALIASES[ph_type]]
        ELSE IF Upper(ph_type) \in members
        THEN [raised |-> "none", type |-> <<"PH_TYPE">> \o Upper(ph_type)]
        ELSE [raised |-> "ValueError", type |-> None]

\* the mutant of GetPlaceholders: a shape has to match the name and the type
GetPlaceholders_And(shapes, shape_name, ph_type) ==
    LET resolved == IF ph_type = None THEN [raised |-> "none", type |-> None]
                    ELSE ResolvePhType(ph_type)
        Matched(k) == /\ shapes[k].is_placeholder
                      /\ shape_name # None => shapes[k].name = shape_name
                      /\ ph_type # None => shapes[k].type = resolved.type
    IN  [raised |-> resolved.raised,
         matches |-> IF resolved.raised # "none" THEN <<>>
                     ELSE SelectSeq([k \in 1..Len(shapes) |-> k], Matched)]

\* get_placeholders(slide, name, ph_type): the positions in slide.shapes of
\* the placeholders that match, in shape order; without criteria every
\* placeholder.  A ValueError of _resolve_ph_type passes through.
GetPlaceholders(shapes, shape_name, ph_type) ==
    LET resolved == IF ph_type = None THEN [raised |-> "none", type |-> None]
                    ELSE ResolvePhType(ph_type)
        Matched(k) == /\ shapes[k].is_placeholder
                      /\ \/ shape_name = None /\ ph_type = None
                         \/ shape_name # None /\ shapes[k].name = shape_name
                         \/ resolved.type # None /\ shapes[k].type = resolved.type
    IN  [raised |-> resolved.raised,
         matches |-> IF resolved.raised # "none" THEN <<>>
                     ELSE SelectSeq([k \in 1..Len(shapes) |-> k], Matched)]

\* the mutant of GetPlaceholder: a missing placeholder never raises
GetPlaceholder_NeverRaises(shapes, shape_name, ph_type, raise_on_missing) ==
    LET found == GetPlaceholders(shapes, shape_name, ph_type)
    IN  [raised |-> "none",
         value |-> IF found.matches = <<>> THEN 0 ELSE found.matches[1],
         available |-> <<>>, warned |-> Len(found.matches) > 1]

\* get_placeholder(slide, name, ph_type, raise_on_missing): `value` is the
\* position in slide.shapes of the shape returned, 0 for None; `available`
\* is the list of placeholders in the message of PlaceholderNotFoundError;
\* `warned` is the logger.warning about several matches
GetPlaceholder(shapes, shape_name, ph_type, raise_on_missing) ==
    LET Info(k) == [name |-> shapes[k].name, type_name |-> Tail(shapes[k].type),
                    idx |-> shapes[k].idx]
        Quiet(e, v, w) == [raised |-> e, value |-> v, available |-> <<>>, warned |-> w]
        Outcome(found, every) ==
            IF found.raised # "none" THEN Quiet(found.raised, 0, FALSE)
            ELSE IF found.matches = <<>>
            THEN IF raise_on_missing
                 THEN [raised |-> "PlaceholderNotFoundError", value |-> 0,
                       available |-> [k \in 1..Len(every) |-> Info(every[k])],
                       warned |-> FALSE]
                 ELSE Quiet("none", 0, FALSE)
            ELSE Quiet("none", found.matches[1], Len(found.matches) > 1)
    IN  IF shape_name = None /\ ph_type = None THEN Quiet("ValueError", 0, FALSE)
        ELSE Outcome(GetPlaceholders(shapes, shape_name, ph_type),
                     GetPlaceholders(shapes, None, None).matches)

\* the mutant of PopulateSlide: the content goes to a body placeholder only
PopulateSlide_BodyOnly(shapes, data) ==
    LET At(role) == GetPlaceholder(shapes, None, role, FALSE).value
        title_at == IF At(<<"t","i","t","l","e">>) # 0 THEN At(<<"t","i","t","l","e">>) ELSE At(<<"c","e","n","t","e","r","_","t","i","t","l","e">>)
        content_at == At(<<"b","o","d","y">>)
    IN  [raised |-> "none", title_at |-> title_at, content_at |-> content_at,
         shapes |-> [k \in 1..Len(shapes) |->
                        IF k = title_at /\ data.title # None
                        THEN [shapes[k] EXCEPT !.text = data.title]
                        ELSE IF k = content_at /\ data.content_blocks # <<>>
                        THEN [shapes[k] EXCEPT !.text = JoinNL(data.content_blocks)]
                        ELSE shapes[k]]]

\* populate_slide(slide, data, config, registry): the title goes to the
\* placeholder of role title, else centerTitle; the content blocks go to the
\* placeholder of role body, else object, else subtitle; a field without a
\* placeholder is left out
PopulateSlide(shapes, data) ==
    LET At(role) == GetPlaceholder(shapes, None, role, FALSE).value
        title_at == IF At(<<"t","i","t","l","e">>) # 0 THEN At(<<"t","i","t","l","e">>) ELSE At(<<"c","e","n","t","e","r","_","t","i","t","l","e">>)
        content_at == IF At(<<"b","o","d","y">>) # 0 THEN At(<<"b","o","d","y">>)
                      ELSE IF At(<<"o","b","j","e","c","t">>) # 0 THEN At(<<"o","b","j","e","c","t">>) ELSE At(<<"s","u","b","t","i","t","l","e">>)
    IN  [raised |-> "none", title_at |-> title_at, content_at |-> content_at,
         shapes |-> [k \in 1..Len(shapes) |->
                        IF k = title_at /\ data.title # None
                        THEN [shapes[k] EXCEPT !.text = data.title]
                        ELSE IF k = content_at /\ data.content_blocks # <<>>
                        THEN [shapes[k] EXCEPT !.text = JoinNL(data.content_blocks)]
                        ELSE shapes[k]]]

\* the mutant of AddImageToArea: the picture is stretched over the area
AddImageToArea_Stretch(img, left, top, width, height, fit_mode) ==
    IF ~img.exists \/ height = 0 THEN [returned |-> "None"]
    ELSE [returned |-> "picture",
          final_left |-> <<left, 1>>, final_top |-> <<top, 1>>,
          final_width |-> <<width, 1>>, final_height |-> <<height, 1>>]

\* add_image_to_area(slide, img_path, left, top, width, height, fit_mode):
\* the area is in inches, the image size in pixels.  A float is written as a
\* fraction <<n, d>> with d > 0, so that the divisions are exact.  The
\* result is the picture added, with the four values in inches that are
\* handed to Inches() for slide.shapes.add_picture, or None for a missing
\* file and for the ZeroDivisionError of an area without height.
AddImageToArea(img, left, top, width, height, fit_mode) ==
    LET ow == img.size[1]
        oh == img.size[2]
        wider == ow * height > width * oh          \* orig_ratio > target_ratio
        by_width == IF fit_mode = "contain" THEN wider ELSE ~wider
        final_width  == IF by_width THEN <<width, 1>> ELSE <<height * ow, oh>>
        final_height == IF by_width THEN <<width * oh, ow>> ELSE <<height, 1>>
        \* start + (extent - final) / 2
        Centred(start, extent, final) ==
            <<2 * start * final[2] + extent * final[2] - final[1], 2 * final[2]>>
        final_left == Centred(left, width, final_width)
        final_top  == Centred(top, height, final_height)
    IN  IF ~img.exists \/ height = 0 THEN [returned |-> "None"]
        ELSE [returned |-> "picture",
              final_left |-> final_left, final_top |-> final_top,
              final_width |-> final_width, final_height |-> final_height]

\* add_images_for_layout(slide, images, layout_name, config, base_path,
\* fit_mode): the pictures added to the slide, each with the area of
\* LAYOUT_SPECS or the place in the row of add_images_to_slide it is put at,
\* the warnings logged, and whether the overlay rectangle is added.  An
\* image is its src and whether base_path / src exists.
AddImagesForLayout(images, layout_name) ==
    LET Nothing == [placed |-> <<>>, warnings |-> <<>>, overlay |-> FALSE]
        NotFound(img, k) == [kind |-> k, src |-> img.src]
        \* add_image_with_caption, add_background_image: one picture in the
        \* area, or the warning that the file is not found
        InArea(img, area, k) ==
            IF img.exists THEN [Nothing EXCEPT !.placed = <<[src |-> img.src, area |-> area]>>]
            ELSE [Nothing EXCEPT !.warnings = <<NotFound(img, k)>>]
        \* add_images_to_slide without a layout: the images in a row
        Row(imgs) ==
            LET at(k) == [name |-> "row", idx |-> k - 1, num_images |-> Len(imgs)]
                each == [k \in 1..Len(imgs) |->
                            IF imgs[k].src = "" THEN Nothing
                            ELSE InArea(imgs[k], at(k), "Image not found")]
            IN  [placed   |-> Flatten([k \in 1..Len(imgs) |-> each[k].placed]),
                 warnings |-> Flatten([k \in 1..Len(imgs) |-> each[k].warnings]),
                 overlay  |-> FALSE]
        Both(a, b) == [placed |-> a.placed \o b.placed, warnings |-> a.warnings \o b.warnings,
                       overlay |-> a.overlay \/ b.overlay]
    IN  IF images = <<>> THEN Nothing
        ELSE IF layout_name \notin {"image-side", "content-bg", "title-bg", "dual-image-text-bottom"}
        THEN Both([Nothing EXCEPT !.warnings = <<[kind |-> "Unknown layout", layout |-> layout_name]>>],
                  Row(images))
        ELSE IF images[1].src = "" THEN Nothing
        ELSE IF layout_name \in {"content-bg", "title-bg"}
        THEN [InArea(images[1], [name |-> "background"], "Background image not found")
                  EXCEPT !.overlay = TRUE]
        ELSE IF layout_name = "image-side"
        THEN Both(InArea(images[1], [name |-> "picture"], "Image not found"),
                  IF Len(images) > 1 THEN Row(Tail(images)) ELSE Nothing)
        ELSE Both(InArea(images[1], [name |-> "picture_left"], "Image not found"),
                  IF Len(images) > 1 /\ images[2].src # ""
                  THEN InArea(images[2], [name |-> "picture_right"], "Image not found")
                  ELSE Nothing)

\* most shapes of a slide
MaxShapes == 3

\* largest side of an image in pixels, and of an area in inches
MaxPixels == 7
MaxInches == 3

\* most lines of a content handed to _parse_content_blocks
MaxBlockLines == 4

\* most images of a slide
MaxImages == 3

\* most files of an upload, most members of a zip
MaxUploads == 2
MaxBodyLines == 3

notCall == <<argVars, splitVars, parseVars, genVars, textVars>>

\* a call of _resolve_ph_type with a string in some letter case or a member
\* of PH_TYPE, a call of get_placeholder or of populate_slide on a slide of
\* placeholders and pictures, a call of add_image_to_area with an image
\* and an area, a call of _parse_content_blocks with at most
\* MaxBlockLines lines, each a heading of level 1 or 2, text, blank, a
\* section marker or the spacer marker itself, a call of add_images_for_layout with at most MaxImages
\* images, with or without a src and a file, and the name of a layout, or
\* a call of save_uploaded_directory or extract_zip with at most MaxUploads
\* names and the directory /t/up, a call of parse_slides with one slide
\* (a frontmatter with a layout and with or without a title, and a body of
\* at most MaxBodyLines lines), a call of _parse_legacy_fallback with a
\* legacy text, or a call of validate_layout_name or of
\* get_available_layout_names; the last four are given a registry, which
\* is the value of the variable registry
PhInit ==
    /\ GenIdle
    /\ ParseIdle
    /\ frame_content = <<>>
    /\ text_frame = <<>>
    /\ idx = 0
    /\ raised = NoError
    /\ warnings = <<>>
    /\ pc = "ph_call"
    /\ result = None
    /\ LET RECURSIVE Variants(_)
           Variants(s) == IF s = <<>> THEN {<<>>}
                          ELSE {<<h>> \o t : h \in {Head(s), Upper(<<Head(s)>>)[1]},
                                             t \in Variants(Tail(s))}
           P(n, t, x) == [name |-> n, is_placeholder |-> TRUE,
                          type |-> <<"PH_TYPE">> \o t, idx |-> x, text |-> <<>>]
           slides_ == SeqsUpTo({P(<<"A">>, <<"T","I","T","L","E">>, 0), P(<<"B">>, <<"B","O","D","Y">>, 1),
                                P(<<"A">>, <<"O","B","J","E","C","T">>, 13), P(<<"B">>, <<"C","E","N","T","E","R","_","T","I","T","L","E">>, 0),
                                P(<<"C">>, <<"S","U","B","T","I","T","L","E">>, 1),
                                [name |-> <<"A">>, is_placeholder |-> FALSE, type |-> None,
                                 idx |-> 0, text |-> <<>>]}, MaxShapes)
           Call(f, sh, n, t, r, d) == [fn |-> f, shapes |-> sh, name |-> n, ph_type |-> t,
                                       raise_on_missing |-> r, data |-> d]
       IN  \/ \E t \in UNION {Variants(a) : a \in {<<"t","i","t","l","e">>, <<"s","u","b","t","i","t","l","e">>, <<"b","o","d","y">>,
                                  <<"c","o","n","t","e","n","t">>, <<"p","i","c","t","u","r","e">>, <<"i","m","a","g","e">>, <<"o","b","j","e","c","t">>, <<"c","h","a","r","t">>,
                                  <<"t","a","b","l","e">>, <<"f","o","o","t","e","r">>, <<"d","a","t","e">>}}
                        \cup {<<"c","e","n","t","e","r","_","t","i","t","l","e">>, <<"C","E","N","T","E","R","_","T","I","T","L","E">>, <<"C","e","n","t","e","r","_","T","i","t","l","e">>,
                              <<"c","e","n","t","e","r","T","i","t","l","e">>, <<"s","l","i","d","e","_","n","u","m","b","e","r">>, <<"S","L","I","D","E","_","N","U","M","B","E","R">>,
                              <<"S","l","i","d","e","_","N","u","m","b","e","r">>, <<"s","l","i","d","e","N","u","m","b","e","r">>, <<"h","e","a","d","e","r">>, <<"t","e","x","t">>,
                              <<"PH_TYPE">> \o <<"B","O","D","Y">>, <<"PH_TYPE">> \o <<"M","I","X","E","D">>} :
                 call = Call("_resolve_ph_type", <<>>, None, t, FALSE, None)
           \/ \E sh \in slides_, n \in {None, <<"A">>, <<"B">>, <<"D">>}, r \in BOOLEAN,
                 t \in {None, <<"t","i","t","l","e">>, <<"B","o","d","y">>, <<"o","b","j","e","c","t">>, <<"C","o","n","t","e","n","t">>, <<"t","e","x","t">>,
                        <<"PH_TYPE">> \o <<"B","O","D","Y">>} :
                 call = Call("get_placeholder", sh, n, t, r, None)
           \/ \E sh \in slides_, t \in {None, <<"T">>}, c \in {<<>>, <<<<"c">>>>, <<<<"c">>, <<"d">>>>} :
                 call = Call("populate_slide", sh, None, None, FALSE,
                             [title |-> t, content_blocks |-> c])
           \/ \E e \in BOOLEAN, ow \in 1..MaxPixels, oh \in 1..MaxPixels, l \in {0, 1},
                 tp \in {0, 1}, w \in 1..MaxInches, h \in 0..MaxInches,
                 m \in {"contain", "cover"} :
                 call = Call("add_image_to_area", <<>>, None, None, FALSE,
                             [img |-> [exists |-> e, size |-> <<ow, oh>>], left |-> l,
                              top |-> tp, width |-> w, height |-> h, fit_mode |-> m])
           \/ \E ls \in SeqsUpTo({<<"#"," ","A">>, <<"#","#"," ","B">>, <<"x">>, <<" ","y">>, <<>>,
                                   <<"<","!","-","-"," ","s","e","c","t","i","o","n",":"," ","S"," ","-","-",">">>,
                                   SPACER_MARKER},
                                  MaxBlockLines) :
                 call = Call("_parse_content_blocks", <<>>, None, None, FALSE, JoinNL(ls))
           \/ \E imgs \in SeqsUpTo({[src |-> "a.png", exists |-> TRUE], [src |-> "b.png", exists |-> TRUE],
                                     [src |-> "c.png", exists |-> FALSE], [src |-> "", exists |-> FALSE]},
                                    MaxImages),
                 l \in {"image-side", "content-bg", "title-bg", "dual-image-text-bottom", "two-column"} :
                 call = Call("add_images_for_layout", <<>>, None, None, FALSE,
                             [images |-> imgs, layout_name |-> l])
           \/ \E ns \in SeqsUpTo({<<"a",".","p","n","g">>,
                                    <<"a","s","s","e","t","s","/","a",".","p","n","g">>,
                                    <<"s","u","b","/","b",".","t","x","t">>,
                                    <<"A",".","P","N","G">>,
                                    <<"x",".","s","h">>,
                                    <<".",".","/","a",".","p","n","g">>,
                                    <<".",".","/","u","p","x","/","a",".","p","n","g">>,
                                    <<"/","e","t","c","/","a",".","p","n","g">>,
                                    <<"a","s","s","e","t","s","/","/","e","t","c","/","a",".","p","n","g">>,
                                    <<"\\","e","t","c","\\","a",".","p","n","g">>,
                                    <<"C",":","/","a",".","p","n","g">>,
                                    <<"d","i","r","/">>},
                                   MaxUploads),
                 f \in {"save_uploaded_directory", "extract_zip"} :
                 call = Call(f, <<>>, None, None, FALSE,
                             [names |-> ns, dest_dir |-> <<<<"t">>, <<"u","p">>>>])
           \/ \E l \in {LAYOUT_A, LAYOUT_B},
                 t \in {<<>>, <<<<"t","i","t","l","e",":"," ","T">>>>,
                        <<<<"t","i","t","l","e",":"," ","\"","\"">>>>, <<<<"t","i","t","l","e",":">>>>},
                 b \in SeqsUpTo({<<"#"," ","H">>, <<"#","#"," ","G">>, <<"x">>, <<>>}, MaxBodyLines),
                 reg \in {[n \in {NAME_A} |-> 0], [n \in {NAME_A, <<"B">>} |-> IF n = NAME_A THEN 1 ELSE 0]},
                 st \in BOOLEAN :
                 call = Call("parse_slides", <<>>, None, None, FALSE,
                             [text |-> JoinNL(<<SEPARATOR, l>> \o t \o <<SEPARATOR>> \o b),
                              registry |-> reg, strict |-> st])
           \/ \E text \in {JoinNL(<<HEADING, TEXT>>), JoinNL(<<TITLE_CLASS, HEADING>>),
                            JoinNL(<<TEXT, SEPARATOR, TEXT>>)},
                 reg \in {<<>>, [n \in {NAME_A} |-> 0],
                          [n \in {NAME_A, <<"T","i","t","l","e">>} |-> IF n = NAME_A THEN 1 ELSE 0]} :
                 call = Call("_parse_legacy_fallback", <<>>, None, None, FALSE,
                             [text |-> text, registry |-> reg])
           \/ \E keys \in SUBSET {<<"A">>, <<"B">>, <<"a">>, <<"A","B">>} :
                 \E reg \in [keys -> 0..1] :
                    \/ \E n \in {<<"A">>, <<"a">>, <<"C">>, <<>>}, r \in BOOLEAN :
                          call = Call("validate_layout_name", <<>>, n, None, r, [registry |-> reg])
                    \/ call = Call("get_available_layout_names", <<>>, None, None, FALSE,
                                   [registry |-> reg])
    /\ registry = IF call.fn \in {"parse_slides", "_parse_legacy_fallback",
                                  "validate_layout_name", "get_available_layout_names"}
                  THEN call.data.registry ELSE <<>>

PhResolveType ==
    /\ pc = "ph_call"
    /\ call.fn = "_resolve_ph_type"
    /\ result' = ResolvePhType(call.ph_type)
    /\ pc' = "ph_done"
    /\ UNCHANGED <<notCall, call>>

PhGetPlaceholder ==
    /\ pc = "ph_call"
    /\ call.fn = "get_placeholder"
    /\ result' = GetPlaceholder(call.shapes, call.name, call.ph_type, call.raise_on_missing)
    /\ pc' = "ph_done"
    /\ UNCHANGED <<notCall, call>>

PhPopulateSlide ==
    /\ pc = "ph_call"
    /\ call.fn = "populate_slide"
    /\ result' = PopulateSlide(call.shapes, call.data)
    /\ pc' = "ph_done"
    /\ UNCHANGED <<notCall, call>>

PhAddImageToArea ==
    /\ pc = "ph_call"
    /\ call.fn = "add_image_to_area"
    /\ result' = AddImageToArea(call.data.img, call.data.left, call.data.top,
                                call.data.width, call.data.height, call.data.fit_mode)
    /\ pc' = "ph_done"
    /\ UNCHANGED <<notCall, call>>

PhParseContentBlocks ==
    /\ pc = "ph_call"
    /\ call.fn = "_parse_content_blocks"
    /\ result' = ParseContentBlocks(call.data)
    /\ pc' = "ph_done"
    /\ UNCHANGED <<notCall, call>>

PhAddImagesForLayout ==
    /\ pc = "ph_call"
    /\ call.fn = "add_images_for_layout"
    /\ result' = AddImagesForLayout(call.data.images, call.data.layout_name)
    /\ pc' = "ph_done"
    /\ UNCHANGED <<notCall, call>>

\* save_uploaded_directory(files, dest_dir): the names saved and skipped,
\* the path each file is written at (as its components below the root),
\* and the ValueError that ends the loop.  is_safe_filename and
\* strip_assets_prefix are those of fs_safety.py.
PhSaveUploadedDirectory ==
    /\ pc = "ph_call"
    /\ call.fn = "save_uploaded_directory"
    /\ result' =
           LET \* is_safe_filename(filename)
               IsSafeFilename(filename) ==
                   /\ FindSub(filename, <<".",".">>) = 0
                   /\ ~StartsWith(filename, <<"/">>)
                   /\ ~(FindSub(filename, <<":">>) # 0 /\ Len(filename) > 2 /\ filename[2] = ":")
               Lower(s) ==
                   LET lo == <<"a","b","c","d","e","f","g","h","i","j","k","l","m","n","o","p","q","r","s","t","u","v","w","x","y","z">>
                       up == <<"A","B","C","D","E","F","G","H","I","J","K","L","M","N","O","P","Q","R","S","T","U","V","W","X","Y","Z">>
                   IN  [k \in 1..Len(s) |-> IF \E j \in 1..26 : up[j] = s[k]
                                            THEN lo[CHOOSE j \in 1..26 : up[j] = s[k]] ELSE s[k]]
               \* strip_assets_prefix(rel_path)
               AfterDot(s) == IF StartsWith(s, <<".","/">>) THEN From(s, 2) ELSE s
               AfterAssets(s) == IF StartsWith(s, <<"a","s","s","e","t","s","/">>) THEN From(s, 7) ELSE s
               StripAssetsPrefix(rel_path) == AfterAssets(AfterDot(Replace(rel_path, <<"\\">>, <<"/">>)))
               \* the components of a path: Path() drops empty components and `.`
               Parts(s) == SelectSeq(SplitOn(s, <<"/">>), LAMBDA c : c # <<>> /\ c # <<".">>)
               \* dest_dir / rel_path: an absolute right-hand side replaces the left
               Join(rel_path) ==
                   IF StartsWith(rel_path, <<"/">>) THEN Parts(rel_path)
                   ELSE call.data.dest_dir \o Parts(rel_path)
               \* Path(rel_path).suffix.lower()
               Name(rel_path) == IF Parts(rel_path) = <<>> THEN <<>>
                                 ELSE Parts(rel_path)[Len(Parts(rel_path))]
               LastDot(n) == IF FindSub(n, <<".">>) = 0 THEN 0
                             ELSE CHOOSE k \in 1..Len(n) : n[k] = "." /\ \A j \in (k + 1)..Len(n) : n[j] # "."
               Suffix(n) == IF LastDot(n) > 1 /\ LastDot(n) < Len(n)
                            THEN Lower(From(n, LastDot(n) - 1)) ELSE <<>>
               ALLOWED_ASSET_EXTENSIONS ==
                   {<<".","p","n","g">>, <<".","j","p","g">>, <<".","j","p","e","g">>, <<".","g","i","f">>, <<".","w","e","b","p">>, <<".","b","m","p">>, <<".","t","i","f","f">>,
                    <<".","y","a","m","l">>, <<".","y","m","l">>, <<".","j","s","o","n">>, <<".","c","s","s">>, <<".","t","x","t">>, <<".","m","d">>}
               \* the loop body for the file at k
               Body(st, k, original_path, rel_path) ==
                   IF ~IsSafeFilename(original_path)
                   THEN [st EXCEPT !.raised = "ValueError"]
                   ELSE IF Suffix(Name(rel_path)) \notin ALLOWED_ASSET_EXTENSIONS
                   THEN [st EXCEPT !.skipped = Append(@, original_path)]
                   ELSE [st EXCEPT !.written = Append(@, [from |-> k, path |-> Join(rel_path)]),
                                   !.saved = Append(@, rel_path)]
               RECURSIVE Loop(_, _)
               Loop(st, k) ==
                   IF k > Len(call.data.names) \/ st.raised # "none" THEN st
                   ELSE Loop(Body(st, k, call.data.names[k],
                                  StripAssetsPrefix(call.data.names[k])), k + 1)
           IN  Loop([raised |-> "none", saved |-> <<>>, skipped |-> <<>>, written |-> <<>>], 1)
    /\ pc' = "ph_done"
    /\ UNCHANGED <<notCall, call>>

\* extract_zip(uploaded_zip, dest_dir): the members extracted, the path
\* each is written at (as its components below the root), and the
\* ValueError that ends the loop.  No path of the model is a symbolic link.
PhExtractZip ==
    /\ pc = "ph_call"
    /\ call.fn = "extract_zip"
    /\ result' =
           LET \* strip_assets_prefix(rel_path)
               AfterDot(s) == IF StartsWith(s, <<".","/">>) THEN From(s, 2) ELSE s
               AfterAssets(s) == IF StartsWith(s, <<"a","s","s","e","t","s","/">>) THEN From(s, 7) ELSE s
               StripAssetsPrefix(rel_path) == AfterAssets(AfterDot(Replace(rel_path, <<"\\">>, <<"/">>)))
               \* the components of a path: Path() drops empty components and `.`
               Parts(s) == SelectSeq(SplitOn(s, <<"/">>), LAMBDA c : c # <<>> /\ c # <<".">>)
               \* dest_dir / rel_path: an absolute right-hand side replaces the left
               Join(rel_path) ==
                   IF StartsWith(rel_path, <<"/">>) THEN Parts(rel_path)
                   ELSE call.data.dest_dir \o Parts(rel_path)
               \* Path.resolve(): `..` steps to the parent, the root is its own parent
               RECURSIVE Resolve(_, _)
               Resolve(done, rest) ==
                   IF rest = <<>> THEN done
                   ELSE IF Head(rest) = <<".",".">>
                   THEN Resolve(SubSeq(done, 1, Len(done) - 1), Tail(rest))
                   ELSE Resolve(Append(done, Head(rest)), Tail(rest))
               \* str(path)
               Str(p) == IF p = <<>> THEN <<"/">>
                         ELSE Flatten([k \in 1..Len(p) |-> <<"/">> \o p[k]])
               \* the loop body for the member at k
               Body(st, k, member, member_path) ==
                   IF EndsWith(member, <<"/">>) THEN st
                   ELSE IF ~StartsWith(Str(member_path), Str(Resolve(<<>>, call.data.dest_dir)))
                   THEN [st EXCEPT !.raised = "ValueError"]
                   ELSE [st EXCEPT !.written = Append(@, [from |-> k, path |-> member_path]),
                                   !.saved = Append(@, StripAssetsPrefix(member))]
               RECURSIVE Loop(_, _)
               Loop(st, k) ==
                   IF k > Len(call.data.names) \/ st.raised # "none" THEN st
                   ELSE Loop(Body(st, k, call.data.names[k],
                                  Resolve(<<>>, Join(StripAssetsPrefix(call.data.names[k])))),
                             k + 1)
           IN  Loop([raised |-> "none", saved |-> <<>>, skipped |-> <<>>, written |-> <<>>], 1)
    /\ pc' = "ph_done"
    /\ UNCHANGED <<notCall, call>>

\* parse_slides(markdown_content, registry, strict=strict),
\* markdown_parser.py:353-452
PhParseSlides ==
    /\ pc = "ph_call"
    /\ call.fn = "parse_slides"
    /\ result' = ParseSlides(call.data.text, registry, call.data.strict)
    /\ pc' = "ph_done"
    /\ UNCHANGED <<notCall, call>>

\* self._parse_legacy_fallback(content_path, registry), generator.py:180-264
PhParseLegacyFallback ==
    /\ pc = "ph_call"
    /\ call.fn = "_parse_legacy_fallback"
    /\ result' = ParseLegacyFallback(call.data.text, registry)
    /\ pc' = "ph_done"
    /\ UNCHANGED <<notCall, call>>

\* validate_layout_name(layout_name, registry, raise_on_missing),
\* layout_discovery.py:130-160: True for a key; otherwise the ValueError
\* that lists the available layouts, or False
PhValidateLayoutName ==
    /\ pc = "ph_call"
    /\ call.fn = "validate_layout_name"
    /\ result' = IF ValidateLayoutName(call.name, registry)
                 THEN [returned |-> TRUE, raised |-> NoError]
                 ELSE IF call.raise_on_missing
                 THEN [raised |-> [type |-> "ValueError", layout_name |-> call.name,
                                   available |-> GetAvailableLayoutNames(registry)]]
                 ELSE [returned |-> FALSE, raised |-> NoError]
    /\ pc' = "ph_done"
    /\ UNCHANGED <<notCall, call>>

\* get_available_layout_names(registry), layout_discovery.py:116-127
PhGetAvailableLayoutNames ==
    /\ pc = "ph_call"
    /\ call.fn = "get_available_layout_names"
    /\ result' = GetAvailableLayoutNames(registry)
    /\ pc' = "ph_done"
    /\ UNCHANGED <<notCall, call>>

PhNext ==
    \/ PhResolveType
    \/ PhGetPlaceholder
    \/ PhPopulateSlide
    \/ PhAddImageToArea
    \/ PhParseContentBlocks
    \/ PhAddImagesForLayout
    \/ PhSaveUploadedDirectory
    \/ PhExtractZip
    \/ PhParseSlides
    \/ PhParseLegacyFallback
    \/ PhValidateLayoutName
    \/ PhGetAvailableLayoutNames

SpecPh == PhInit /\ [][PhNext]_vars

-----------------------------------------------------------------------------
(* Claims about the placeholder resolver *)

Returned(fn) == pc = "ph_done" /\ call.fn = fn

\* the member of PH_TYPE a shape is asked for by the call, None without one
AskedRole ==
    IF call.ph_type = None THEN None ELSE ResolvePhType(call.ph_type).type

\* the positions of the placeholders that have the name or the role asked for
Matching ==
    {k \in 1..Len(call.shapes) :
        /\ call.shapes[k].is_placeholder
        /\ \/ call.name # None /\ call.shapes[k].name = call.name
           \/ AskedRole # None /\ call.shapes[k].type = AskedRole}

\* a call of get_placeholder with a criterion and a role that resolves
Searched ==
    /\ Returned("get_placeholder")
    /\ call.name # None \/ call.ph_type # None
    /\ call.ph_type # None => ResolvePhType(call.ph_type).raised = "none"

\* C12: get_placeholder returns the placeholder that comes first in shape
\* order among those whose name is the name asked for or whose role is the
\* role asked for; with several it logs and still returns the first; a shape
\* that is no placeholder is never returned
C12_FirstMatchInShapeOrder ==
    (Searched /\ Matching # {}) =>
        /\ result.raised = "none"
        /\ result.value \in Matching
        /\ \A k \in Matching : result.value <= k
        /\ call.shapes[result.value].is_placeholder
        /\ Cardinality(Matching) > 1 => result.warned

\* a name and a role are asked for, a picture of that name comes first, and
\* the placeholder returned has the role and another name, before a
\* placeholder of that name
C12_Witness ==
    /\ Searched
    /\ call.name # None /\ call.ph_type # None
    /\ result.value > 1 /\ result.warned
    /\ call.shapes[result.value].name # call.name
    /\ \E k \in 1..(result.value - 1) :
          ~call.shapes[k].is_placeholder /\ call.shapes[k].name = call.name
    /\ \E k \in Matching : k > result.value /\ call.shapes[k].name = call.name

\* C13: when no placeholder matches, get_placeholder raises
\* PlaceholderNotFoundError with the name, role and index of every
\* placeholder of the slide if raise_on_missing, and returns None if not;
\* the slide and its shapes stay as they were
C13_MissingRaisesOrNone ==
    /\ [](Searched /\ Matching = {} =>
            IF call.raise_on_missing
            THEN /\ result.raised = "PlaceholderNotFoundError"
                 /\ \A k \in 1..Len(call.shapes) :
                       call.shapes[k].is_placeholder =>
                          \E a \in 1..Len(result.available) :
                             result.available[a] =
                                [name |-> call.shapes[k].name,
                                 type_name |-> Tail(call.shapes[k].type),
                                 idx |-> call.shapes[k].idx]
                 /\ Len(result.available) =
                       Cardinality({k \in 1..Len(call.shapes) :
                                       call.shapes[k].is_placeholder})
            ELSE result.raised = "none" /\ result.value = 0)
    /\ [][call.fn = "get_placeholder" => call'.shapes = call.shapes]_vars

\* a slide of two placeholders or more, none of which matches, and the
\* error lists them
C13_Witness ==
    /\ Searched /\ Matching = {}
    /\ call.raise_on_missing
    /\ result.raised = "PlaceholderNotFoundError"
    /\ Len(result.available) >= 2
    /\ \E k \in 1..Len(call.shapes) : ~call.shapes[k].is_placeholder

\* the same search with raise_on_missing=False returns None
C13_ReturnsNone ==
    /\ Searched /\ Matching = {}
    /\ ~call.raise_on_missing
    /\ result.raised = "none" /\ result.value = 0
    /\ Len(call.shapes) >= 2

\* C14: _resolve_ph_type gives every case variant of an alias the role of
\* the alias and does not raise
C14_CaseInsensitiveAlias ==
    Returned("_resolve_ph_type") =>
        \A a \in DOMAIN PH_TYPE_ALIASES :
            Upper(a) = Upper(call.ph_type) =>
                result = [raised |-> "none", type |-> PH_TYPE_ALIASES[a]]

\* what the code does: an alias in lower or upper case resolves, and so does
\* any case variant of the name of a member of PH_TYPE; a mixed-case variant
\* of an alias that names no member (content, image) raises ValueError
C14_ExactAliasOrMemberName ==
    Returned("_resolve_ph_type") =>
        /\ call.ph_type \in DOMAIN PH_TYPE_ALIASES =>
              result = [raised |-> "none", type |-> PH_TYPE_ALIASES[call.ph_type]]
        /\ \A a \in DOMAIN PH_TYPE_ALIASES :
              (Upper(a) = Upper(call.ph_type) /\ PH_TYPE_ALIASES[a] = <<"PH_TYPE">> \o Upper(a))
                 => result = [raised |-> "none", type |-> PH_TYPE_ALIASES[a]]
        /\ (Upper(call.ph_type) \in {<<"C","O","N","T","E","N","T">>, <<"I","M","A","G","E">>}
              /\ call.ph_type \notin DOMAIN PH_TYPE_ALIASES)
                 => result.raised = "ValueError"

\* "Content" was asked for and ValueError came back
C14_MixedCaseRaises ==
    /\ Returned("_resolve_ph_type")
    /\ call.ph_type = <<"C","o","n","t","e","n","t">>
    /\ result.raised = "ValueError"

\* the first placeholder of a role on the slide of the call, 0 without one
FirstOfRole(role) ==
    LET at == {k \in 1..Len(call.shapes) :
                  /\ call.shapes[k].is_placeholder
                  /\ call.shapes[k].type = <<"PH_TYPE">> \o role}
    IN  IF at = {} THEN 0 ELSE CHOOSE k \in at : \A j \in at : k <= j

\* the first placeholder found by trying the roles in turn, 0 without one
FirstOfRoles(roles) ==
    IF \A r \in 1..Len(roles) : FirstOfRole(roles[r]) = 0 THEN 0
    ELSE FirstOfRole(roles[CHOOSE r \in 1..Len(roles) :
                              /\ FirstOfRole(roles[r]) # 0
                              /\ \A q \in 1..(r - 1) : FirstOfRole(roles[q]) = 0])

\* C15: populate_slide writes the title to the first placeholder found by
\* trying the roles title, centerTitle and the content to the first found by
\* trying body, object, subtitle; a slide with an object placeholder and no
\* body placeholder receives its content blocks
C15_FallbackChain ==
    Returned("populate_slide") =>
        LET t == FirstOfRoles(<<<<"T","I","T","L","E">>, <<"C","E","N","T","E","R","_","T","I","T","L","E">>>>)
            c == FirstOfRoles(<<<<"B","O","D","Y">>, <<"O","B","J","E","C","T">>, <<"S","U","B","T","I","T","L","E">>>>)
        IN  /\ (t # 0 /\ call.data.title # None) => result.shapes[t].text = call.data.title
            /\ (c # 0 /\ call.data.content_blocks # <<>>) =>
                  result.shapes[c].text = JoinNL(call.data.content_blocks)
            /\ \A k \in 1..Len(call.shapes) :
                  k \notin {t, c} => result.shapes[k] = call.shapes[k]

\* a slide with an object placeholder, a subtitle placeholder before it and
\* no body placeholder: the content is in the object placeholder
C15_Witness ==
    /\ Returned("populate_slide")
    /\ FirstOfRole(<<"B","O","D","Y">>) = 0
    /\ FirstOfRole(<<"O","B","J","E","C","T">>) > FirstOfRole(<<"S","U","B","T","I","T","L","E">>)
    /\ FirstOfRole(<<"S","U","B","T","I","T","L","E">>) > 0
    /\ call.data.content_blocks # <<>>
    /\ result.shapes[FirstOfRole(<<"O","B","J","E","C","T">>)].text = JoinNL(call.data.content_blocks)
    /\ result.shapes[FirstOfRole(<<"S","U","B","T","I","T","L","E">>)].text = <<>>

-----------------------------------------------------------------------------
(* Claims about the legacy fallback and the layouts generate builds with *)

\* what parse_markdown_file gives generate for the content file
NewFormatParse == ParseMarkdownFile(ContentText, ParseTimeRegistry, FALSE)

\* the dicts the legacy parser makes of the content file
LegacyDicts == ParseMarkdownSlides(ContentText).slides

\* C16: generate takes the legacy fallback exactly when the new-format parse
\* gave no SlideData, and then the slide list is one SlideData for each
\* legacy dict, in file order (stated where generate has just decided)
C16_LegacyIffNoSlides ==
    pc = "template" =>
        LET new == NewFormatParse
        IN  IF new.raised.type = "none" /\ new.slides # <<>>
            THEN ~legacy /\ slide_data_list = new.slides
            ELSE /\ legacy
                 /\ Len(slide_data_list) = Len(LegacyDicts)
                 /\ \A k \in 1..Len(slide_data_list) :
                       /\ slide_data_list[k].title = LegacyDicts[k].title
                       /\ slide_data_list[k].section_name = LegacyDicts[k].section_name
                       /\ LegacyDicts[k].content # <<>> =>
                             slide_data_list[k].content_blocks = <<LegacyDicts[k].content>>

\* the fallback made two SlideData of two legacy slides with different
\* titles, and the run went on to the end
C16_Witness ==
    /\ pc = "done"
    /\ legacy
    /\ Len(slide_data_list) = 2
    /\ slide_data_list[1].title # slide_data_list[2].title
    /\ slide_data_list[1].title = LegacyDicts[1].title

\* the new parser found a slide and the fallback was not taken
C16_NewFormatKept ==
    /\ pc = "done"
    /\ ~legacy
    /\ slide_data_list # <<>>

\* generate is about to call build_slide(data.layout_name, prs, registry)
CallsBuildSlide == pc = "build" /\ ~LoopDone(idx, slide_data_list)

\* the registry in use is the one of the template that prs was opened from
RegistryOfOpenTemplate ==
    registry = LoadLayoutRegistry(FileAt(files, template_path).layouts)

\* C20: when generate calls build_slide(data.layout_name, prs, registry),
\* the layout name is not empty and is a key of the registry passed, and
\* that registry was built from the template file prs was opened from
C20_BuildLayoutInRegistry ==
    CallsBuildSlide =>
        /\ slide_data_list[idx].layout_name \notin {None, <<>>}
        /\ slide_data_list[idx].layout_name \in DOMAIN registry
        /\ RegistryOfOpenTemplate

\* what does hold: the layout name is not empty, the registry is the one
\* of the open template, and the name is a key of the registry the content
\* was parsed against unless the fallback found that registry empty
C20_LayoutOfParseTimeRegistry ==
    CallsBuildSlide =>
        /\ slide_data_list[idx].layout_name \notin {None, <<>>}
        /\ RegistryOfOpenTemplate
        /\ \/ slide_data_list[idx].layout_name \in DOMAIN ParseTimeRegistry
           \/ legacy /\ ParseTimeRegistry = <<>>

\* a slide parsed against the configured template is built with the
\* registry of the template the frontmatter names, which lacks its layout
C20_FrontmatterTemplateLacksLayout ==
    /\ CallsBuildSlide
    /\ ~legacy
    /\ template_path = ALT_PATH
    /\ slide_data_list[idx].layout_name \in DOMAIN ParseTimeRegistry
    /\ slide_data_list[idx].layout_name \notin DOMAIN registry

\* the fallback on an empty registry names "Title and Content"
C20_EmptyRegistryDefault ==
    /\ CallsBuildSlide
    /\ legacy
    /\ registry = <<>>
    /\ slide_data_list[idx].layout_name = CONTENT_CANDIDATES[1]

-----------------------------------------------------------------------------
(* Claims about the image fit *)

\* comparison of fractions with positive denominators
QLe(x, y) == x[1] * y[2] <= y[1] * x[2]
QEq(x, y) == x[1] * y[2] = y[1] * x[2]
QAdd(x, y) == <<x[1] * y[2] + y[1] * x[2], x[2] * y[2]>>

\* add_image_to_area has placed a picture in the given mode
Placed(mode) ==
    /\ Returned("add_image_to_area")
    /\ call.data.fit_mode = mode
    /\ result.returned = "picture"

\* C17: in contain mode the picture lies within the target rectangle, has
\* the aspect ratio of the image, has the width or the height of the
\* rectangle, and is centred in it
C17_ContainFit ==
    Placed("contain") =>
        LET a == call.data
            r == result
        IN  /\ QLe(<<a.left, 1>>, r.final_left) /\ QLe(<<a.top, 1>>, r.final_top)
            /\ QLe(QAdd(r.final_left, r.final_width), <<a.left + a.width, 1>>)
            /\ QLe(QAdd(r.final_top, r.final_height), <<a.top + a.height, 1>>)
            /\ r.final_width[1] > 0 /\ r.final_height[1] > 0
            /\ r.final_width[1] * r.final_height[2] * a.img.size[2]
                  = r.final_height[1] * r.final_width[2] * a.img.size[1]
            /\ QEq(r.final_width, <<a.width, 1>>) \/ QEq(r.final_height, <<a.height, 1>>)
            /\ QEq(QAdd(QAdd(r.final_left, r.final_left), r.final_width),
                   <<2 * a.left + a.width, 1>>)
            /\ QEq(QAdd(QAdd(r.final_top, r.final_top), r.final_height),
                   <<2 * a.top + a.height, 1>>)
            /\ (a.img.size[1] = 2 * a.img.size[2] /\ a.width = a.height) =>
                  /\ QEq(r.final_width, <<a.width, 1>>)
                  /\ QEq(r.final_height, <<a.width, 2>>)
                  /\ QEq(r.final_top, <<4 * a.top + a.width, 4>>)

\* a 2:1 image in a square of 3 inches at top 1: 3 in wide, 1.5 in high,
\* top at 1.75 in, left at the left of the square
C17_Witness ==
    /\ Placed("contain")
    /\ call.data.img.size = <<4, 2>>
    /\ call.data.width = 3 /\ call.data.height = 3 /\ call.data.top = 1
    /\ QEq(result.final_width, <<3, 1>>) /\ QEq(result.final_height, <<3, 2>>)
    /\ QEq(result.final_top, <<7, 4>>) /\ QEq(result.final_left, <<call.data.left, 1>>)

\* an image taller than the area: the height of the area, narrower than
\* the area and to the right of its left edge
C17_TallImage ==
    /\ Placed("contain")
    /\ call.data.img.size = <<3, 7>>
    /\ QEq(result.final_height, <<call.data.height, 1>>)
    /\ ~QLe(<<call.data.width, 1>>, result.final_width)
    /\ ~QLe(result.final_left, <<call.data.left, 1>>)

-----------------------------------------------------------------------------
(* Claims about separator-delimited documents and the end-to-end example *)

\* the document has no layout line and no two separator lines in a row:
\* blocks of headings, text and blank lines between single separators
PureDelimited ==
    /\ \A k \in 1..Len(lines) : lines[k] \notin {LAYOUT_A, LAYOUT_B}
    /\ \A k \in 1..(Len(lines) - 1) :
          ~(IsSeparatorLine(lines[k]) /\ IsSeparatorLine(lines[k + 1]))
    /\ \E k \in 1..Len(lines) : IsSeparatorLine(lines[k])

\* no separator line is followed by a block whose first non-blank line reads
\* as a YAML key
NoBlockOpensWithKey ==
    \A k \in 1..Len(lines) :
        IsSeparatorLine(lines[k]) =>
            \A j \in (k + 1)..Len(lines) :
                (/\ Strip(lines[j]) # <<>>
                 /\ \A q \in (k + 1)..(j - 1) : Strip(lines[q]) = <<>>)
                    => ~YamlKeyLike(lines[j])

\* C19 as stated: a document of blocks between single separator lines gives
\* one segment for each non-blank block, the stripped text of the block,
\* whatever the content lines are
C19_OneSegmentPerBlock ==
    (SplitDone /\ PureDelimited) =>
        slides = SelectSeq(Blocks(markdown_content), NonBlank)

\* C19, amended: so it is when no block after a separator opens with a line
\* that reads as a YAML key (a colon in a line that is no heading)
C19_BlocksWithoutKeyLine ==
    (SplitDone /\ PureDelimited /\ NoBlockOpensWithKey) =>
        slides = SelectSeq(Blocks(markdown_content), NonBlank)

\* text and a line with a colon, a separator, a heading with a colon: two
\* segments
C19_Witness ==
    /\ SplitDone
    /\ lines = <<TEXT, NOTE, SEPARATOR, HEADING>>
    /\ slides = <<<<"x"," ",NL>> \o NOTE, HEADING>>

\* text, a separator, a line with a colon: the separator stays in the second
\* segment as the opener of a frontmatter block
C19_ColonBlockTakenAsFrontmatter ==
    /\ SplitDone
    /\ lines = <<TEXT, SEPARATOR, NOTE>>
    /\ slides = <<<<"x">>, SEPARATOR \o <<NL>> \o NOTE>>

\* the formatter has rendered the slide of the end-to-end example
ExampleRendered ==
    /\ pc = "text_done"
    /\ slide_data # <<>>
    /\ slide_data[1].layout_name = <<"T","i","t","l","e">>
    /\ slide_data[1].raw_content = <<"#"," ","H","e","l","l","o">> \o <<NL>> \o <<"W","o","r","l","d">>

\* a paragraph of plain text: no bullet, body font
IsPlainParagraph(p, text) ==
    /\ "bullet" \in DOMAIN p
    /\ p.bullet.kind = "buNone"
    /\ p.text = text
    /\ p.level = 0
    /\ p.font = "body_text"

\* C18: the example file gives one slide with the title Hello whose body
\* holds exactly one paragraph, the plain paragraph World
C18_OneSlideHelloWorld ==
    ExampleRendered =>
        /\ Len(slide_data) = 1
        /\ slide_data[1].title = <<"H","e","l","l","o">>
        /\ Len(text_frame) = 1
        /\ IsPlainParagraph(text_frame[1], <<"W","o","r","l","d">>)

\* what the code gives: one slide with the title Hello and the content
\* block World; the body holds the empty paragraph that text_frame.clear()
\* leaves, and after it the plain paragraph World
C18_EmptyParagraphThenWorld ==
    ExampleRendered =>
        /\ Len(slide_data) = 1
        /\ slide_data[1].title = <<"H","e","l","l","o">>
        /\ slide_data[1].content_blocks = <<<<"W","o","r","l","d">>>>
        /\ Len(text_frame) = 2
        /\ text_frame[1] = [kind |-> "template", text |-> <<>>]
        /\ IsPlainParagraph(text_frame[2], <<"W","o","r","l","d">>)

\* the example has been rendered into a frame that held two paragraphs
C18_ExampleReached ==
    /\ ExampleRendered
    /\ Len(text_frame) = 2
    /\ text_frame[2].text = <<"W","o","r","l","d">>

-----------------------------------------------------------------------------
(* the paragraphs of the formatter *)

\* the lines the loop has gone through that are not blank, stripped
LinesDone ==
    [k \in 1..Len(SelectSeq(SubSeq(lines, 1, i - 1), LAMBDA l : Strip(l) # <<>>)) |->
        Strip(SelectSeq(SubSeq(lines, 1, i - 1), LAMBDA l : Strip(l) # <<>>)[k])]

\* t is the end of s
IsSuffix(t, s) == Len(t) <= Len(s) /\ SubSeq(s, Len(s) - Len(t) + 1, Len(s)) = t

\* the kinds of line the formatter tells apart
IsHeadingLine(l) ==
    \E n \in 2..5 : StartsWith(l, [k \in 1..(n + 1) |-> IF k <= n THEN "#" ELSE " "])
IsBulletLine(l) == StartsWith(l, <<"-"," ">>)
IsNumberedLine(l) ==
    \E n \in 1..(Len(l) - 2) :
        /\ \A k \in 1..n : \E d \in 1..10 : DIGITS[d] = l[k]
        /\ l[n + 1] = "." /\ IsSpace(l[n + 2])

\* C21: at every point of the loop of _populate_content_text_frame the
\* frame holds, after the paragraph that clear() leaves, one paragraph for
\* each line gone through that is not blank, in the order of the lines; each
\* paragraph has one bullet state (a bullet character, an automatic number or
\* no bullet) and a left margin and a first-line indent that are set: a
\* positive margin with a negative indent for a bullet line and a numbered
\* line, margin 0 and indent 0 for a spacer, a heading of level 2 to 5 and
\* plain text.
C21_ExplicitParagraphState ==
    pc \in {"text_loop", "text_done"} =>
        /\ Len(Added) = Len(LinesDone)
        /\ \A k \in 1..Len(Added) :
              /\ Added[k].bullet.kind \in {"buChar", "buAutoNum", "buNone"}
              /\ Added[k].marL \in Int /\ Added[k].indent \in Int
              /\ Added[k].bullet.kind = "buChar" <=>
                     IsBulletLine(LinesDone[k])
              /\ Added[k].bullet.kind = "buAutoNum" <=>
                     IsNumberedLine(LinesDone[k])
              /\ Added[k].bullet.kind = "buNone" <=>
                     \/ LinesDone[k] = SPACER_MARKER
                     \/ IsHeadingLine(LinesDone[k])
                     \/ ~IsBulletLine(LinesDone[k]) /\ ~IsNumberedLine(LinesDone[k])
              /\ Added[k].bullet.kind \in {"buChar", "buAutoNum"} =>
                     /\ Added[k].marL > 0 /\ Added[k].indent < 0
                     /\ Added[k].marL + Added[k].indent >= 0
              /\ Added[k].bullet.kind = "buNone" =>
                     Added[k].marL = 0 /\ Added[k].indent = 0
              /\ \/ Added[k].text = <<" ">> /\ LinesDone[k] = SPACER_MARKER
                 \/ IsSuffix(Added[k].text, LinesDone[k])

\* a bullet line, a numbered line and a heading went through the loop: a
\* bullet character, an automatic number, no bullet
C21_Witness ==
    /\ pc = "text_done"
    /\ lines = <<<<"-"," ","a">>, <<"2","."," ","n">>, <<"#","#"," ","H">>>>
    /\ [k \in 1..3 |-> Added[k].bullet.kind] = <<"buChar", "buAutoNum", "buNone">>
    /\ [k \in 1..3 |-> Added[k].marL] = <<457200, 457200, 0>>
    /\ [k \in 1..3 |-> Added[k].indent] = <<-457200, -457200, 0>>

-----------------------------------------------------------------------------
(* Claims about _parse_content_blocks *)

\* the lines of the content handed to _parse_content_blocks, stripped
GivenLines == [k \in 1..Len(SplitNL(call.data)) |-> Strip(SplitNL(call.data)[k])]

\* a heading of level 1 or 2, and the text after its marker
IsTitleHeading(l) == StartsWith(l, <<"#"," ">>) \/ StartsWith(l, <<"#","#"," ">>)
HeadingText(l) == Strip(From(l, IF StartsWith(l, <<"#"," ">>) THEN 2 ELSE 3))

\* the positions of the headings of level 1 or 2 and of the section markers
\* among the stripped lines gl
HeadingsAt(gl) == {k \in 1..Len(gl) : IsTitleHeading(gl[k])}
MarkersAt(gl)  == {k \in 1..Len(gl) : SectionMatch(gl[k]) # None}

\* the lines that are content: not blank, no section marker and not the
\* first heading
ContentLines(gl) ==
    LET hs == HeadingsAt(gl)
        ms == MarkersAt(gl)
    IN  SelectSeq([k \in 1..Len(gl) |-> k],
                  LAMBDA k : /\ gl[k] # <<>>
                             /\ k \notin ms
                             /\ k \notin hs \/ \E j \in hs : j < k)

\* no line of the content is itself the spacer marker
NoLiteralSpacer(gl) == \A k \in 1..Len(gl) : gl[k] # SPACER_MARKER

\* the blocks that are no spacer markers, each as its lines
TextBlocks(blocks) ==
    LET texts == SelectSeq(blocks, LAMBDA b : b # SPACER_MARKER)
    IN  [k \in 1..Len(texts) |-> SplitNL(texts[k])]

\* what C22 says of the stripped lines gl and the value res returned
FirstHeadingIsTitle(gl, hs, ms, res) ==
    /\ res.title =
          IF hs = {} THEN None
          ELSE HeadingText(gl[CHOOSE k \in hs : \A j \in hs : k <= j])
    /\ res.section_name =
          IF ms = {} THEN <<>>
          ELSE SectionMatch(gl[CHOOSE k \in ms : \A j \in ms : j <= k])
    /\ NoLiteralSpacer(gl) =>
          \E cl \in {ContentLines(gl)} :
              Flatten(TextBlocks(res.content_blocks)) = [k \in 1..Len(cl) |-> gl[cl[k]]]
    /\ \E tb \in {TextBlocks(res.content_blocks)} :
          \A b \in 1..Len(tb) : \A k \in 2..Len(tb[b]) : ~IsTitleHeading(tb[b][k])

-----------------------------------------------------------------------------
(* Claims about the placement of images *)

\* the picture areas LAYOUT_SPECS gives a layout, in order
PictureAreas(layout_name) ==
    IF layout_name = "image-side" THEN <<"picture">>
    ELSE IF layout_name \in {"content-bg", "title-bg"} THEN <<"background">>
    ELSE IF layout_name = "dual-image-text-bottom" THEN <<"picture_left", "picture_right">>
    ELSE <<>>

\* the src of the images that have one and whose file exists
Usable_(imgs) ==
    [k \in 1..Len(SelectSeq(imgs, LAMBDA g : g.src # "" /\ g.exists)) |->
        SelectSeq(imgs, LAMBDA g : g.src # "" /\ g.exists)[k].src]

PlacedSrc == [k \in 1..Len(result.placed) |-> result.placed[k].src]

\* C23: add_images_for_layout puts the images, in list order, in the
\* picture areas of the layout, one each; with more images than areas the
\* images beyond the areas are not placed and a warning that names the count
\* is logged; for a layout without a picture area no image is placed and a
\* warning is logged.
C23_ExtrasDroppedWithWarning ==
    Returned("add_images_for_layout") =>
        /\ Len(result.placed) <= Len(PictureAreas(call.data.layout_name))
        /\ \A k \in 1..Len(result.placed) :
              result.placed[k].area.name = PictureAreas(call.data.layout_name)[k]
        /\ Len(call.data.images) > Len(PictureAreas(call.data.layout_name)) =>
              \E k \in 1..Len(result.warnings) :
                  /\ "count" \in DOMAIN result.warnings[k]
                  /\ result.warnings[k].count \in
                         {Len(call.data.images),
                          Len(call.data.images) - Len(PictureAreas(call.data.layout_name))}
        /\ PictureAreas(call.data.layout_name) = <<>> /\ call.data.images # <<>> =>
              result.placed = <<>> /\ result.warnings # <<>>

\* what the code does: no warning names a count; the only warnings are the
\* unknown layout and a file that is not found.  For a layout that is not in
\* LAYOUT_SPECS, and for image-side after its first image, every image with
\* a file is placed, in a row; a background layout places the first image
\* only and the two-picture layout the first two, and the images after them
\* are left out without a warning.
C23_ExtrasInRowOrLeftOutSilently ==
    Returned("add_images_for_layout") =>
        /\ \A k \in 1..Len(result.warnings) :
              /\ "count" \notin DOMAIN result.warnings[k]
              /\ result.warnings[k].kind \in
                     {"Unknown layout", "Image not found", "Background image not found"}
              /\ result.warnings[k].kind # "Unknown layout" =>
                     \E g \in 1..Len(call.data.images) :
                         /\ call.data.images[g].src = result.warnings[k].src
                         /\ ~call.data.images[g].exists
                         /\ g <= Len(PictureAreas(call.data.layout_name))
                               \/ call.data.layout_name \in {"image-side", "two-column"}
        /\ PictureAreas(call.data.layout_name) = <<>> => PlacedSrc = Usable_(call.data.images)
        /\ call.data.layout_name = "image-side" /\ call.data.images # <<>> =>
              PlacedSrc = IF call.data.images[1].src = "" THEN <<>>
                          ELSE Usable_(call.data.images)
        /\ call.data.layout_name \in {"content-bg", "title-bg", "dual-image-text-bottom"} =>
              /\ Len(result.placed) <= Len(PictureAreas(call.data.layout_name))
              /\ \A k \in 1..Len(result.placed) :
                    \E g \in 1..Len(PictureAreas(call.data.layout_name)) :
                        /\ result.placed[k].src = call.data.images[g].src
                        /\ result.placed[k].area.name = PictureAreas(call.data.layout_name)[g]

\* three images for the two picture areas: two pictures, no warning
C23_ThirdImageLeftOutSilently ==
    /\ Returned("add_images_for_layout")
    /\ call.data.layout_name = "dual-image-text-bottom"
    /\ PlacedSrc = <<"a.png", "b.png">>
    /\ Len(call.data.images) = 3 /\ call.data.images[3].src = "a.png"
    /\ result.warnings = <<>>

\* two images for the one picture area of image-side: both are placed, the
\* second in the row of add_images_to_slide, and no warning is logged
C23_ExtraImagePlacedInRow ==
    /\ Returned("add_images_for_layout")
    /\ call.data.layout_name = "image-side"
    /\ PlacedSrc = <<"a.png", "b.png">>
    /\ result.placed[2].area.name = "row"
    /\ result.warnings = <<>>

\* a layout without picture areas: the warning, and the image is placed
C23_UnknownLayoutPlaced ==
    /\ Returned("add_images_for_layout")
    /\ call.data.layout_name = "two-column"
    /\ PlacedSrc = <<"a.png">>
    /\ result.warnings = <<[kind |-> "Unknown layout", layout |-> "two-column"]>>

-----------------------------------------------------------------------------
(* Claims about the cover fit *)

\* the picture has the aspect ratio of the image and is centred in the
\* target rectangle
KeepsRatioCentred ==
    /\ result.final_width[1] > 0 /\ result.final_height[1] > 0
    /\ result.final_width[1] * result.final_height[2] * call.data.img.size[2]
          = result.final_height[1] * result.final_width[2] * call.data.img.size[1]
    /\ QEq(QAdd(QAdd(result.final_left, result.final_left), result.final_width),
           <<2 * call.data.left + call.data.width, 1>>)
    /\ QEq(QAdd(QAdd(result.final_top, result.final_top), result.final_height),
           <<2 * call.data.top + call.data.height, 1>>)

\* the picture reaches every edge of the target rectangle
CoversArea ==
    /\ QLe(result.final_left, <<call.data.left, 1>>)
    /\ QLe(result.final_top, <<call.data.top, 1>>)
    /\ QLe(<<call.data.left + call.data.width, 1>>, QAdd(result.final_left, result.final_width))
    /\ QLe(<<call.data.top + call.data.height, 1>>, QAdd(result.final_top, result.final_height))

\* the picture, which add_picture gives no crop, lies within the target
\* rectangle
WithinArea ==
    /\ QLe(<<call.data.left, 1>>, result.final_left)
    /\ QLe(<<call.data.top, 1>>, result.final_top)
    /\ QLe(QAdd(result.final_left, result.final_width), <<call.data.left + call.data.width, 1>>)
    /\ QLe(QAdd(result.final_top, result.final_height), <<call.data.top + call.data.height, 1>>)

\* C24: in cover mode the picture has the aspect ratio of the image, is
\* centred and fills the target rectangle, and what it shows is the target
\* rectangle: no part of it lies beyond the rectangle.
C24_CoverFillsAndCrops ==
    Placed("cover") => KeepsRatioCentred /\ CoversArea /\ WithinArea

\* what the code does: the picture has the aspect ratio of the image, is
\* centred, fills the rectangle and has its width or its height; it lies
\* within the rectangle only when the image has the ratio of the rectangle
C24_CoverFillsUncropped ==
    Placed("cover") =>
        /\ KeepsRatioCentred
        /\ CoversArea
        /\ QEq(result.final_width, <<call.data.width, 1>>)
              \/ QEq(result.final_height, <<call.data.height, 1>>)
        /\ WithinArea <=>
              call.data.img.size[1] * call.data.height = call.data.width * call.data.img.size[2]

\* a 2:1 image over a square of 3 inches at left 1: the picture is 6 inches
\* wide and starts half an inch left of the slide's edge, 1.5 inches before
\* the square
C24_WideImageOverflows ==
    /\ Placed("cover")
    /\ call.data.img.size = <<4, 2>>
    /\ call.data.width = 3 /\ call.data.height = 3 /\ call.data.left = 1
    /\ QEq(result.final_width, <<6, 1>>) /\ QEq(result.final_height, <<3, 1>>)
    /\ QEq(result.final_left, <<-1, 2>>)
    /\ ~WithinArea

-----------------------------------------------------------------------------
(* Claims about the paths of uploaded files *)

\* save_uploaded_directory or extract_zip has returned or raised
Uploaded == pc = "ph_done" /\ call.fn \in {"save_uploaded_directory", "extract_zip"}

\* the path is dest_dir or lies below it
UnderDestDir(path) ==
    /\ Len(path) >= Len(call.data.dest_dir)
    /\ SubSeq(path, 1, Len(call.data.dest_dir)) = call.data.dest_dir

\* C25: every file that save_uploaded_directory or extract_zip writes is
\* written at dest_dir or below it; for a name that leads out of dest_dir
\* nothing is written.
C25_WrittenUnderDestDir ==
    Uploaded => \A k \in 1..Len(result.written) : UnderDestDir(result.written[k].path)

\* what the code does: a file is written outside dest_dir by
\* save_uploaded_directory when its name begins with a backslash or has a
\* second slash after the prefix that strip_assets_prefix removes, which
\* makes the stripped path absolute, and by extract_zip when the member
\* leads to a directory beside dest_dir whose name begins with the name of
\* dest_dir; every other file is written at or below dest_dir.
C25_OutsideWhenAbsoluteOrSibling ==
    Uploaded =>
        \A k \in 1..Len(result.written) :
            \/ UnderDestDir(result.written[k].path)
            \/ /\ call.fn = "save_uploaded_directory"
               /\ \/ StartsWith(call.data.names[result.written[k].from], <<"\\">>)
                  \/ StartsWith(call.data.names[result.written[k].from],
                                <<"a","s","s","e","t","s","/","/">>)
            \/ /\ call.fn = "extract_zip"
               /\ Len(result.written[k].path) >= Len(call.data.dest_dir)
               /\ SubSeq(result.written[k].path, 1, Len(call.data.dest_dir) - 1)
                      = SubSeq(call.data.dest_dir, 1, Len(call.data.dest_dir) - 1)
               /\ StartsWith(result.written[k].path[Len(call.data.dest_dir)],
                             call.data.dest_dir[Len(call.data.dest_dir)])

\* the upload of assets//etc/a.png into /t/up is accepted and written at
\* /etc/a.png
C25_AbsoluteAfterPrefix ==
    /\ Uploaded
    /\ call.fn = "save_uploaded_directory"
    /\ call.data.names = <<<<"a","s","s","e","t","s","/","/","e","t","c","/","a",".","p","n","g">>>>
    /\ result.raised = "none"
    /\ result.written = <<[from |-> 1, path |-> <<<<"e","t","c">>, <<"a",".","p","n","g">>>>]>>

\* the zip member ../upx/a.png is accepted for /t/up and written at
\* /t/upx/a.png
C25_SiblingSharingPrefix ==
    /\ Uploaded
    /\ call.fn = "extract_zip"
    /\ call.data.names = <<<<".",".","/","u","p","x","/","a",".","p","n","g">>>>
    /\ result.raised = "none"
    /\ result.written = <<[from |-> 1, path |-> <<<<"t">>, <<"u","p","x">>, <<"a",".","p","n","g">>>>]>>

\* a parent traversal and an absolute name are rejected by both functions,
\* and nothing is written
C25_TraversalRejected ==
    /\ Uploaded
    /\ call.data.names \in {<<<<".",".","/","a",".","p","n","g">>>>,
                            <<<<"/","e","t","c","/","a",".","p","n","g">>>>}
    /\ result.raised = "ValueError"
    /\ result.written = <<>>

-----------------------------------------------------------------------------
(* Claims about the shape of the segments *)

\* the positions of the separator lines among some lines
SeparatorsIn(ls) == {k \in 1..Len(ls) : IsSeparatorLine(ls[k])}

\* no separator line, or the first line only (frontmatter that is open), or
\* the first line and one more (frontmatter that is closed)
OpenerThenCloser(ls) ==
    /\ Cardinality(SeparatorsIn(ls)) <= 2
    /\ SeparatorsIn(ls) # {} => 1 \in SeparatorsIn(ls)

\* C26: at every point of _split_into_slides each segment in the list is
\* stripped and not empty and holds at most two separator lines, its first
\* line and the line that closes the frontmatter the first line opens, so
\* no separator line comes after body content; the in-frontmatter flag is
\* set exactly while the buffer holds an opener without its closer.
C26_SegmentsWellFormed ==
    /\ \A k \in 1..Len(slides) :
          /\ slides[k] # <<>>
          /\ slides[k] = Strip(slides[k])
          /\ OpenerThenCloser(SplitNL(slides[k]))
    /\ OpenerThenCloser(current_slide_lines)
    /\ in_frontmatter <=> Cardinality(SeparatorsIn(current_slide_lines)) = 1

\* text, then a separator that ends the slide and opens the frontmatter of
\* the next one, a key line and the closer: two segments, the second made
\* of opener, key line and closer
C26_Witness ==
    /\ pc = "parse"
    /\ lines = <<TEXT, SEPARATOR, NOTE, SEPARATOR>>
    /\ Len(slides) = 2
    /\ SeparatorsIn(SplitNL(slides[1])) = {}
    /\ SeparatorsIn(SplitNL(slides[2])) = {1, 3}
    /\ ~in_frontmatter

\* frontmatter that is never closed: the segment holds the opener only and
\* the flag is still set when the loop ends
C26_UnclosedFrontmatter ==
    /\ pc = "parse"
    /\ in_frontmatter
    /\ Len(slides) = 1
    /\ SeparatorsIn(SplitNL(slides[1])) = {1}

-----------------------------------------------------------------------------
(* Claims about the document frontmatter *)

\* the lines of the content file, and the first separator line after the
\* first line (0 when there is none)
FileLines == SplitNL(ContentText)
BlockEnd ==
    IF \A k \in 2..Len(FileLines) : ~IsSeparatorLine(FileLines[k]) THEN 0
    ELSE CHOOSE k \in 2..Len(FileLines) :
             /\ IsSeparatorLine(FileLines[k])
             /\ \A j \in 2..(k - 1) : ~IsSeparatorLine(FileLines[j])

\* the file opens with a block between two separator lines
HasDocumentBlock == IsSeparatorLine(FileLines[1]) /\ BlockEnd # 0

\* what YAML makes of the lines of the block, and the text after the block
BlockYaml == LoadFrontmatter(SubSeq(FileLines, 2, BlockEnd - 1))
AfterBlock == JoinNL(SubSeq(FileLines, BlockEnd + 1, Len(FileLines)))

C27_ScalarBlockRaises ==
    /\ pc = "raised"
    /\ raised.type = "AttributeError"
    /\ HasDocumentBlock
    /\ ~BlockYaml.is_map
    /\ ParseSlides(AfterBlock, registry, FALSE).raised = NoError

-----------------------------------------------------------------------------
(* Claims about the shape of the content blocks *)

\* line k of the stripped lines gl is content: not blank, no section
\* marker and not the first heading of level 1 or 2
IsContentAt(gl, k) ==
    /\ gl[k] # <<>>
    /\ SectionMatch(gl[k]) = None
    /\ IsTitleHeading(gl[k]) => \E j \in 1..(k-1) : IsTitleHeading(gl[j])

\* the lines kept: the content lines, and the blank lines between the first
\* and the last content line
KeptLines(gl) ==
    LET at == {k \in 1..Len(gl) : IsContentAt(gl, k)}
        lo == IF at = {} THEN 0 ELSE CHOOSE k \in at : \A j \in at : k <= j
        hi == IF at = {} THEN 0 ELSE CHOOSE k \in at : \A j \in at : j <= k
        kept == SelectSeq([k \in 1..Len(gl) |-> k],
                          LAMBDA k : k \in at \/ (gl[k] = <<>> /\ lo < k /\ k < hi))
    IN  [n \in 1..Len(kept) |-> gl[kept[n]]]

\* the blocks as lines: a spacer marker as one blank line, any other block
\* as its lines
BlocksAsLines(blocks) ==
    Flatten([b \in 1..Len(blocks) |->
                IF blocks[b] = SPACER_MARKER THEN <<<<>>>> ELSE SplitNL(blocks[b])])

\* no empty block, no spacer marker first or last, and the blocks read as
\* lines are the lines kept of the stripped lines gl
BlockShape(gl, blocks) ==
    /\ \A b \in 1..Len(blocks) : blocks[b] # <<>>
    /\ blocks # <<>> => blocks[1] # SPACER_MARKER /\ blocks[Len(blocks)] # SPACER_MARKER
    /\ BlocksAsLines(blocks) = KeptLines(gl)

\* C28: for every content in which no line is itself the spacer marker,
\* the content_blocks _parse_content_blocks returns hold no empty block and
\* neither start nor end with a spacer marker, and each blank line between
\* the first and the last content line gives exactly one spacer marker, at
\* its place among the content lines.
C28_BlockShape ==
    Returned("_parse_content_blocks") =>
        \E gl \in {GivenLines} :
            (\A k \in 1..Len(gl) : gl[k] # SPACER_MARKER) => BlockShape(gl, result.content_blocks)

\* C28 as stated, for every content
C28_BlockShapeForEveryInput ==
    Returned("_parse_content_blocks") =>
        \E gl \in {GivenLines} : BlockShape(gl, result.content_blocks)

\* text, two blank lines, text: two spacer markers between the two blocks
C28_Witness ==
    /\ Returned("_parse_content_blocks")
    /\ GivenLines = <<<<"x">>, <<>>, <<>>, <<"y">>>>
    /\ result.content_blocks = <<<<"x">>, SPACER_MARKER, SPACER_MARKER, <<"y">>>>

\* a line that is the spacer marker, a blank line, text: the blocks start
\* with a spacer marker
C28_LiteralSpacerFirst ==
    /\ Returned("_parse_content_blocks")
    /\ GivenLines = <<SPACER_MARKER, <<>>, <<"x">>>>
    /\ result.content_blocks = <<SPACER_MARKER, SPACER_MARKER, <<"x">>>>

\* text, a blank line, a line that is the spacer marker: the last line is
\* stripped with the spacer
C28_LiteralSpacerLast ==
    /\ Returned("_parse_content_blocks")
    /\ GivenLines = <<<<"x">>, <<>>, SPACER_MARKER>>
    /\ result.content_blocks = <<<<"x">>>>

-----------------------------------------------------------------------------
(* Claims about the title of a slide *)

\* the lines of the slide handed to parse_slides, stripped: the frontmatter
\* between the first two separators and the body after them
SlideLines == [k \in 1..Len(SplitNL(call.data.text)) |-> Strip(SplitNL(call.data.text)[k])]
SlideCloser == CHOOSE k \in 2..Len(SlideLines) :
                   SlideLines[k] = SEPARATOR /\ \A j \in 2..(k-1) : SlideLines[j] # SEPARATOR
FrontmatterLines == SubSeq(SlideLines, 2, SlideCloser - 1)
BodyLines == SubSeq(SlideLines, SlideCloser + 1, Len(SlideLines))

\* the frontmatter gives the title T
TITLE_T == <<"t","i","t","l","e",":"," ","T">>
HasFrontmatterTitle == \E k \in 1..Len(FrontmatterLines) : FrontmatterLines[k] = TITLE_T

\* the text of the first heading of level 1 or 2 among the lines gl, None
\* without one
FirstHeading(gl) ==
    IF \A k \in 1..Len(gl) : ~IsTitleHeading(gl[k]) THEN None
    ELSE HeadingText(gl[CHOOSE k \in 1..Len(gl) :
                            IsTitleHeading(gl[k]) /\ \A j \in 1..(k-1) : ~IsTitleHeading(gl[j])])

\* the content lines of gl: not blank and not the first heading
ContentOf(gl) ==
    LET at == SelectSeq([k \in 1..Len(gl) |-> k], LAMBDA k : IsContentAt(gl, k))
    IN  [n \in 1..Len(at) |-> gl[at[n]]]

\* the lines of the blocks that are no spacer markers
LinesOf(blocks) ==
    Flatten([b \in 1..Len(blocks) |->
                IF blocks[b] = SPACER_MARKER THEN <<>> ELSE SplitNL(blocks[b])])

\* parse_slides returned one slide
OneSlide ==
    /\ Returned("parse_slides")
    /\ result.raised = NoError
    /\ Len(result.slides) = 1

C29_HeadingIsTitle ==
    /\ OneSlide
    /\ FrontmatterLines = <<LAYOUT_A>>
    /\ BodyLines = <<<<"x">>, <<"#","#"," ","G">>, <<"#"," ","H">>>>
    /\ result.slides[1].title = <<"G">>
    /\ result.slides[1].content_blocks = <<<<"x">>, <<"#"," ","H">>>>

\* an empty title in the frontmatter: the first heading is the title
C29_EmptyTitleFallsBack ==
    /\ OneSlide
    /\ FrontmatterLines = <<LAYOUT_A, <<"t","i","t","l","e",":"," ","\"","\"">>>>
    /\ BodyLines = <<<<"#"," ","H">>>>
    /\ result.slides[1].title = <<"H">>
    /\ result.slides[1].content_blocks = <<>>

-----------------------------------------------------------------------------
(* Claims about the registry after load *)

\* the functions that are given a registry and only read it
RegistryReaders ==
    {"validate_layout_name", "get_available_layout_names", "parse_slides",
     "_parse_legacy_fallback"}

\* names is the keys of reg, each once, in ascending order
IsSortedKeys(names, reg) ==
    /\ Len(names) = Cardinality(DOMAIN reg)
    /\ {names[k] : k \in 1..Len(names)} = DOMAIN reg
    /\ \A k \in 1..(Len(names) - 1) : StrLess(names[k], names[k + 1])

\* what validate_layout_name gives for a name, a registry and the choice
\* raise_on_missing
Validated(res, name, reg, raise_on_missing) ==
    IF name \in DOMAIN reg THEN res.raised = NoError /\ res.returned = TRUE
    ELSE IF raise_on_missing
         THEN res.raised.type = "ValueError" /\ IsSortedKeys(res.raised.available, reg)
         ELSE res.raised = NoError /\ res.returned = FALSE

\* C30: a call of validate_layout_name, get_available_layout_names,
\* parse_slides or _parse_legacy_fallback leaves the registry it is given
\* as it is; get_available_layout_names returns its keys in ascending
\* order, and validate_layout_name returns True exactly when the name is a
\* key, and otherwise raises ValueError or returns False as raise_on_missing
\* selects.
C30_RegistryReadOnly ==
    [][pc = "ph_call" /\ call.fn \in RegistryReaders =>
          /\ registry' = registry
          /\ registry' = call.data.registry
          /\ call.fn = "get_available_layout_names" => IsSortedKeys(result', registry)
          /\ call.fn = "validate_layout_name" =>
                Validated(result', call.name, registry, call.raise_on_missing)]_vars

\* a registry with the keys a, B, AB and A: the names come back as A, AB,
\* B, a
C30_Witness ==
    /\ Returned("get_available_layout_names")
    /\ DOMAIN registry = {<<"A">>, <<"B">>, <<"a">>, <<"A","B">>}
    /\ registry = call.data.registry
    /\ result = <<<<"A">>, <<"A","B">>, <<"B">>, <<"a">>>>

\* a name that differs from a key in case only is no key: ValueError
C30_MissingRaises ==
    /\ Returned("validate_layout_name")
    /\ call.name = <<"a">> /\ call.raise_on_missing
    /\ DOMAIN registry = {<<"A">>, <<"B">>}
    /\ result.raised.type = "ValueError"
    /\ result.raised.available = <<<<"A">>, <<"B">>>>

\* the same name without raise_on_missing: False
C30_MissingReturnsFalse ==
    /\ Returned("validate_layout_name")
    /\ call.name = <<"a">> /\ ~call.raise_on_missing
    /\ DOMAIN registry = {<<"A">>, <<"B">>}
    /\ result.raised = NoError /\ result.returned = FALSE

\* parse_slides in strict mode on a layout that is no key: the registry is
\* as given
C30_ParseRaisesRegistryKept ==
    /\ Returned("parse_slides")
    /\ result.raised # NoError
    /\ registry = call.data.registry
    /\ DOMAIN registry = {NAME_A}

\* the fallback on a registry without any candidate name: the first
\* available name is used and the registry is as given
C30_FallbackRegistryKept ==
    /\ Returned("_parse_legacy_fallback")
    /\ registry = call.data.registry
    /\ DOMAIN registry = {NAME_A}
    /\ result.slides # <<>>
    /\ result.slides[1].layout_name = NAME_A

====
